---------------------------- MODULE Spec2Model ----------------------------
(***************************************************************************)
(* JobSniffr resume parser and job-field recommender                      *)
(* (src/resumeparser-app/app.py): ResumeParser.parse_resume with its five *)
(* extractors and JobFieldRecommender.get_job_recommendations, as called  *)
(* by concurrent request handlers on the two module-level objects         *)
(* `parser` and `recommender`.                                            *)
(*                                                                         *)
(* Python str values are TLA+ strings; a character is a string of length  *)
(* one, s[i] is SubSeq(s, i, i).  Python lists are sequences, dicts with  *)
(* fixed keys are records.                                                 *)
(***************************************************************************)
EXTENDS Integers, Sequences, FiniteSets, TLC

VARIABLES
  job_fields,       \* recommender.job_fields
  skills_database,  \* parser.skills_database
  job_keywords,     \* parser.job_keywords
  all_skills,       \* parser.all_skills
  hash_seed,        \* per caller: the hash seed of the interpreter serving it
  pc,               \* per caller: where its call stands
  call,             \* per caller: the call and its arguments
  local,            \* per caller: the local variables of the running call
  result,           \* per caller: what the call returned or raised
  now,              \* datetime.now(), in whole seconds
  upload_folder,    \* the files of app.config['UPLOAD_FOLDER'], by path
  resumes,          \* the rows of the table of Resume
  request           \* per caller: the HTTP request its handler is serving

taxonomy == << job_fields, skills_database, job_keywords, all_skills >>
parsing == << job_fields, skills_database, job_keywords, all_skills, hash_seed, pc, call, local, result >>
web == << now, upload_folder, resumes, request >>
vars == << job_fields, skills_database, job_keywords, all_skills, hash_seed, pc, call, local, result,
           now, upload_folder, resumes, request >>

----------------------------------------------------------------------------
(* Characters and the str methods the code uses. *)

UpperLetters == "ABCDEFGHIJKLMNOPQRSTUVWXYZ"
LowerLetters == "abcdefghijklmnopqrstuvwxyz"
DigitChars == "0123456789"

Char(s, i) == SubSeq(s, i, i)

CharsOf(s) == { Char(s, i) : i \in 1..Len(s) }

UpperSet == CharsOf(UpperLetters)
LowerSet == CharsOf(LowerLetters)
DigitSet == CharsOf(DigitChars)

(* ch.lower() and ch.upper() of one ASCII character, as tables. *)
LowerMap == [ ch \in UpperSet |->
               Char(LowerLetters, CHOOSE i \in 1..Len(UpperLetters) : Char(UpperLetters, i) = ch) ]
UpperMap == [ ch \in LowerSet |->
               Char(UpperLetters, CHOOSE i \in 1..Len(LowerLetters) : Char(LowerLetters, i) = ch) ]

LowerChar(ch) == IF ch \in UpperSet THEN LowerMap[ch] ELSE ch
UpperChar(ch) == IF ch \in LowerSet THEN UpperMap[ch] ELSE ch

(* str.lower(), built by halves so that the evaluation depth is         *)
(* logarithmic in Len(s).                                                 *)
RECURSIVE lower(_)
lower(s) ==
  IF Len(s) = 0 THEN ""
  ELSE IF Len(s) = 1 THEN LowerChar(s)
  ELSE LET h == Len(s) \div 2
       IN  lower(SubSeq(s, 1, h)) \o lower(SubSeq(s, h + 1, Len(s)))

(* str.upper() *)
RECURSIVE upper(_)
upper(s) ==
  IF Len(s) = 0 THEN ""
  ELSE IF Len(s) = 1 THEN UpperChar(s)
  ELSE LET h == Len(s) \div 2
       IN  upper(SubSeq(s, 1, h)) \o upper(SubSeq(s, h + 1, Len(s)))

(* [x.lower() for x in xs] *)
LowerAll(xs) == [ i \in 1..Len(xs) |-> lower(xs[i]) ]

(* `needle in hay` for two str values *)
Contains(hay, needle) ==
  \E i \in 1..(Len(hay) - Len(needle) + 1) : SubSeq(hay, i, i + Len(needle) - 1) = needle

(* `x in xs` for a list xs *)
IsIn(x, xs) == \E i \in 1..Len(xs) : xs[i] = x

(* set(xs) *)
Range(xs) == { xs[i] : i \in 1..Len(xs) }

Min(a, b) == IF a <= b THEN a ELSE b

----------------------------------------------------------------------------
(* The taxonomies built by the two constructors. *)

(* JobFieldRecommender.job_fields: the ten fields in dict insertion order. *)
JobFields ==
  << [ name |-> "Software Engineer",
       skills |-> << "Python", "Java", "JavaScript", "C++", "C#", "Go", "Ruby", "TypeScript", "React",
                   "Angular", "Vue.js", "Node.js", "Django", "Flask", "Spring", "Git", "Docker",
                   "Kubernetes", "AWS", "Azure", "REST API", "GraphQL" >>,
       keywords |-> << "software", "developer", "programming", "coding", "full-stack", "backend",
                     "frontend", "api", "microservices", "agile", "scrum" >>,
       weight |-> 1 ],
     [ name |-> "Data Scientist",
       skills |-> << "Python", "R", "Machine Learning", "Deep Learning", "TensorFlow", "PyTorch",
                   "Scikit-learn", "Pandas", "NumPy", "Matplotlib", "Statistics", "SQL", "Jupyter",
                   "MATLAB", "SAS", "SPSS", "NLP", "Computer Vision" >>,
       keywords |-> << "data", "analysis", "machine learning", "ai", "artificial intelligence",
                     "predictive", "modeling", "statistics", "research", "algorithm" >>,
       weight |-> 1 ],
     [ name |-> "Data Engineer",
       skills |-> << "Python", "SQL", "Apache Spark", "Hadoop", "Kafka", "Airflow", "ETL", "AWS",
                   "Azure", "GCP", "MongoDB", "PostgreSQL", "Redis", "Elasticsearch", "Docker",
                   "Kubernetes", "Scala", "Java", "Databricks", "Snowflake" >>,
       keywords |-> << "data", "pipeline", "etl", "warehouse", "big data", "streaming", "database",
                     "infrastructure", "architect", "integration" >>,
       weight |-> 1 ],
     [ name |-> "DevOps Engineer",
       skills |-> << "Docker", "Kubernetes", "Jenkins", "Git", "CI/CD", "Terraform", "Ansible", "AWS",
                   "Azure", "Linux", "Bash", "Python", "Monitoring", "Prometheus", "Grafana",
                   "ELK Stack", "Nginx", "Apache", "Security" >>,
       keywords |-> << "devops", "automation", "deployment", "infrastructure", "cloud", "continuous",
                     "integration", "monitoring", "reliability", "sre" >>,
       weight |-> 1 ],
     [ name |-> "Cloud Architect",
       skills |-> << "AWS", "Azure", "GCP", "Terraform", "CloudFormation", "Docker", "Kubernetes",
                   "Serverless", "Lambda", "Microservices", "API Gateway", "Load Balancing",
                   "Security", "Networking", "Python", "Java", "Node.js" >>,
       keywords |-> << "cloud", "architect", "solution", "infrastructure", "scalability", "migration",
                     "serverless", "saas", "paas", "iaas" >>,
       weight |-> 1 ],
     [ name |-> "Full Stack Developer",
       skills |-> << "JavaScript", "React", "Angular", "Vue.js", "Node.js", "HTML5", "CSS3", "Python",
                   "Django", "Flask", "Java", "Spring", "SQL", "MongoDB", "REST API", "GraphQL",
                   "Git", "Docker", "AWS" >>,
       keywords |-> << "full-stack", "fullstack", "frontend", "backend", "web", "application",
                     "responsive", "ui", "ux", "api" >>,
       weight |-> 1 ],
     [ name |-> "Mobile Developer",
       skills |-> << "Swift", "Kotlin", "React Native", "Flutter", "iOS", "Android", "Java",
                   "Objective-C", "Xcode", "Android Studio", "API", "Firebase", "SQLite" >>,
       keywords |-> << "mobile", "ios", "android", "app", "application", "native", "cross-platform" >>,
       weight |-> 1 ],
     [ name |-> "Machine Learning Engineer",
       skills |-> << "Python", "TensorFlow", "PyTorch", "Scikit-learn", "MLflow", "Kubeflow",
                   "Deep Learning", "Neural Networks", "Computer Vision", "NLP", "CUDA", "Docker",
                   "Kubernetes", "AWS SageMaker", "Model Deployment" >>,
       keywords |-> << "machine learning", "ml", "ai", "deep learning", "neural", "model", "training",
                     "deployment", "mlops", "production" >>,
       weight |-> 1 ],
     [ name |-> "Business Analyst",
       skills |-> << "SQL", "Excel", "Tableau", "Power BI", "Python", "R", "Jira", "Confluence",
                   "Agile", "Scrum", "Requirements Analysis", "Data Analysis", "Visio" >>,
       keywords |-> << "business", "analyst", "requirements", "stakeholder", "process", "improvement",
                     "strategy", "reporting", "dashboard" >>,
       weight |-> 1 ],
     [ name |-> "QA Engineer",
       skills |-> << "Selenium", "Jest", "Cypress", "JUnit", "TestNG", "Postman", "JMeter", "Python",
                   "Java", "JavaScript", "Git", "CI/CD", "Automation Testing" >>,
       keywords |-> << "qa", "quality", "testing", "test", "automation", "bug", "defect", "validation",
                     "regression", "performance" >>,
       weight |-> 1 ] >>

(* ResumeParser.skills_database: category -> skills, in dict insertion order. *)
SkillsDatabase ==
  << [ category |-> "programming_languages",
       skills |-> << "Python", "JavaScript", "Java", "C++", "C#", "PHP", "Ruby", "Go", "Swift",
                   "Kotlin", "TypeScript", "Scala", "R", "MATLAB", "Perl", "Rust", "Dart",
                   "Objective-C", "C", "VB.NET", "F#", "Haskell", "Clojure", "Erlang", "Elixir",
                   "Lua", "Shell", "Bash" >> ],
     [ category |-> "web_technologies",
       skills |-> << "React", "Angular", "Vue.js", "Node.js", "Express.js", "Django", "Flask",
                   "Spring", "ASP.NET", "Laravel", "Ruby on Rails", "jQuery", "Bootstrap",
                   "Tailwind CSS", "HTML5", "CSS3", "SASS", "LESS", "Webpack", "Vite", "Next.js",
                   "Nuxt.js", "Svelte", "Ember.js", "Backbone.js", "Redux", "MobX", "GraphQL",
                   "REST API" >> ],
     [ category |-> "databases",
       skills |-> << "MySQL", "PostgreSQL", "MongoDB", "SQLite", "Redis", "Oracle", "SQL Server",
                   "Cassandra", "DynamoDB", "Firebase", "Elasticsearch", "Neo4j", "CouchDB",
                   "MariaDB", "Amazon RDS", "Google Cloud SQL", "Azure SQL Database" >> ],
     [ category |-> "cloud_platforms",
       skills |-> << "AWS", "Azure", "Google Cloud Platform", "GCP", "Digital Ocean", "Heroku",
                   "Vercel", "Netlify", "Firebase", "Supabase", "PlanetScale", "Railway" >> ],
     [ category |-> "devops_tools",
       skills |-> << "Docker", "Kubernetes", "Jenkins", "Git", "GitHub", "GitLab", "Bitbucket",
                   "CI/CD", "Terraform", "Ansible", "Chef", "Puppet", "Nginx", "Apache", "Linux",
                   "Ubuntu", "CentOS", "RedHat", "Vagrant", "CircleCI", "Travis CI" >> ],
     [ category |-> "data_science_ml",
       skills |-> << "Machine Learning", "Deep Learning", "TensorFlow", "PyTorch", "Scikit-learn",
                   "Pandas", "NumPy", "Matplotlib", "Seaborn", "Jupyter", "Tableau", "Power BI",
                   "Apache Spark", "Hadoop", "Kafka", "Airflow", "MLflow", "Kubeflow", "OpenCV",
                   "NLTK", "spaCy", "Hugging Face", "Computer Vision", "NLP" >> ],
     [ category |-> "soft_skills",
       skills |-> << "Leadership", "Team Management", "Communication", "Problem Solving",
                   "Critical Thinking", "Analytical Skills", "Creativity", "Adaptability",
                   "Time Management", "Strategic Planning", "Negotiation", "Presentation",
                   "Training", "Mentoring", "Customer Service", "Sales", "Marketing" >> ] >>

(* ResumeParser.job_keywords. *)
JobKeywords ==
  << "experienced", "certified", "expert", "specialist", "manager", "developer",
     "engineer", "architect", "analyst", "consultant", "lead", "senior", "junior",
     "professional", "agile", "scrum", "project", "team", "client", "business",
     "technical", "solution", "implementation", "development", "design", "analysis" >>

(* ResumeParser.__init__: all_skills is the concatenation of the categories. *)
RECURSIVE ExtendAll(_, _)
ExtendAll(db, i) == IF i > Len(db) THEN << >> ELSE db[i].skills \o ExtendAll(db, i + 1)

AllSkills == ExtendAll(SkillsDatabase, 1)

----------------------------------------------------------------------------
(* JobFieldRecommender *)

(* round(num / den) for den > 0: Python 3 rounds a half to the even      *)
(* neighbour and returns an int.  The code computes num / den in binary  *)
(* floating point; for each of the ten fields and every number of        *)
(* matched skills and keywords the exact quotient is never a half-way    *)
(* case and the float result rounds to the same integer, so the score    *)
(* is computed here in exact arithmetic.                                  *)
round(num, den) ==
  LET q == num \div den
      r == num % den
  IN  IF 2 * r > den THEN q + 1
      ELSE IF 2 * r < den THEN q
      ELSE IF q % 2 = 0 THEN q ELSE q + 1

(* Hits with the membership test inverted (`if x not in ys`). *)
HitsNotIn(xs, ys) == Cardinality({ i \in 1..Len(xs) : ~IsIn(xs[i], ys) })

(* The number of elements of the list xs that are in the list ys:        *)
(* the iterations of `for x in xs` whose `if x in ys` is taken.          *)
Hits(xs, ys) == Cardinality({ i \in 1..Len(xs) : IsIn(xs[i], ys) })

(* [k['word'] for k in user_keywords] *)
KeywordWords(ks) == [ i \in 1..Len(ks) |-> ks[i].word ]

(* calculate_match_score with the keyword loop testing the skill list   *)
(* (`if keyword in user_skills_lower`).                                   *)
calculate_match_score_wrong_list(user_skills, user_keywords, job_field_data) ==
  LET user_skills_lower == LowerAll(user_skills)
      field_skills_lower == LowerAll(job_field_data.skills)
      field_keywords_lower == LowerAll(job_field_data.keywords)
      ns == Len(field_skills_lower)
      nk == Len(field_keywords_lower)
      unit == (IF ns = 0 THEN 1 ELSE ns) * (IF nk = 0 THEN 1 ELSE nk)
      skill_share == IF ns = 0 THEN 0 ELSE (60 * unit) \div ns
      keyword_share == IF nk = 0 THEN 0 ELSE (40 * unit) \div nk
      score == Hits(field_skills_lower, user_skills_lower) * skill_share
                 + Hits(field_keywords_lower, user_skills_lower) * keyword_share
      max_score == ns * skill_share + nk * keyword_share
      percentage == IF max_score > 0 THEN round(score * 100, max_score) ELSE 0
  IN  Min(percentage, 100)

(* calculate_match_score taking the denominator to be 100                *)
(* (`percentage = score`).                                                 *)
calculate_match_score_denominator_100(user_skills, user_keywords, job_field_data) ==
  LET user_skills_lower == LowerAll(user_skills)
      user_keywords_lower == LowerAll(KeywordWords(user_keywords))
      field_skills_lower == LowerAll(job_field_data.skills)
      field_keywords_lower == LowerAll(job_field_data.keywords)
      ns == Len(field_skills_lower)
      nk == Len(field_keywords_lower)
      unit == (IF ns = 0 THEN 1 ELSE ns) * (IF nk = 0 THEN 1 ELSE nk)
      skill_share == IF ns = 0 THEN 0 ELSE (60 * unit) \div ns
      keyword_share == IF nk = 0 THEN 0 ELSE (40 * unit) \div nk
      score == Hits(field_skills_lower, user_skills_lower) * skill_share
                 + Hits(field_keywords_lower, user_keywords_lower) * keyword_share
  IN  Min(round(score, unit), 100)

(* calculate_match_score comparing the candidate's keywords as given     *)
(* (`user_keywords_lower = [k['word'] for k in user_keywords]`).          *)
calculate_match_score_keywords_as_given(user_skills, user_keywords, job_field_data) ==
  LET user_skills_lower == LowerAll(user_skills)
      user_keywords_lower == KeywordWords(user_keywords)
      field_skills_lower == LowerAll(job_field_data.skills)
      field_keywords_lower == LowerAll(job_field_data.keywords)
      ns == Len(field_skills_lower)
      nk == Len(field_keywords_lower)
      unit == (IF ns = 0 THEN 1 ELSE ns) * (IF nk = 0 THEN 1 ELSE nk)
      skill_share == IF ns = 0 THEN 0 ELSE (60 * unit) \div ns
      keyword_share == IF nk = 0 THEN 0 ELSE (40 * unit) \div nk
      score == Hits(field_skills_lower, user_skills_lower) * skill_share
                 + Hits(field_keywords_lower, user_keywords_lower) * keyword_share
      max_score == ns * skill_share + nk * keyword_share
      percentage == IF max_score > 0 THEN round(score * 100, max_score) ELSE 0
  IN  Min(percentage, 100)

calculate_match_score(user_skills, user_keywords, job_field_data) ==
  LET user_skills_lower == LowerAll(user_skills)
      user_keywords_lower == LowerAll(KeywordWords(user_keywords))
      field_skills_lower == LowerAll(job_field_data.skills)
      field_keywords_lower == LowerAll(job_field_data.keywords)
      ns == Len(field_skills_lower)
      nk == Len(field_keywords_lower)
      \* score and max_score are kept as multiples of 1 / unit
      unit == (IF ns = 0 THEN 1 ELSE ns) * (IF nk = 0 THEN 1 ELSE nk)
      skill_share == IF ns = 0 THEN 0 ELSE (60 * unit) \div ns
      keyword_share == IF nk = 0 THEN 0 ELSE (40 * unit) \div nk
      score == Hits(field_skills_lower, user_skills_lower) * skill_share
                 + Hits(field_keywords_lower, user_keywords_lower) * keyword_share
      max_score == ns * skill_share + nk * keyword_share
      percentage == IF max_score > 0 THEN round(score * 100, max_score) ELSE 0
  IN  Min(percentage, 100)

(* The bonus with the field name compared as written                     *)
(* (`if field_name in experience_text`).                                   *)
ExperienceBonusCaseSensitive(match_score, field_name, experience_text) ==
  IF experience_text # "" /\ Contains(experience_text, field_name)
  THEN Min(match_score + 10, 100)
  ELSE match_score

(* The bonus without its cap (`match_score + 10`). *)
ExperienceBonusUncapped(match_score, field_name, experience_text) ==
  IF experience_text # "" /\ Contains(lower(experience_text), lower(field_name))
  THEN match_score + 10
  ELSE match_score

(* lines 330-333: the experience bonus *)
ExperienceBonus(match_score, field_name, experience_text) ==
  IF experience_text # "" /\ Contains(lower(experience_text), lower(field_name))
  THEN Min(match_score + 10, 100)
  ELSE match_score

(* get_job_search_url: field_name.replace(' ', '+') in three URL templates *)
(* str.replace(' ', '+') *)
RECURSIVE SpaceToPlus(_)
SpaceToPlus(s) ==
  IF Len(s) = 0 THEN ""
  ELSE IF Len(s) = 1 THEN (IF s = " " THEN "+" ELSE s)
  ELSE LET h == Len(s) \div 2
       IN  SpaceToPlus(SubSeq(s, 1, h)) \o SpaceToPlus(SubSeq(s, h + 1, Len(s)))

get_job_search_url(field_name) ==
  LET search_query == SpaceToPlus(field_name)
  IN  [ linkedin |-> "https://www.linkedin.com/jobs/search/?keywords=" \o search_query,
        indeed |-> "https://www.indeed.com/jobs?q=" \o search_query,
        glassdoor |-> "https://www.glassdoor.com/Job/jobs.htm?sc.keyword=" \o search_query ]

(* An insertion that puts an element before the elements of equal key:  *)
(* a descending sort that reverses ties.                                  *)
RECURSIVE InsertDescBeforeTies(_, _)
InsertDescBeforeTies(r, sorted) ==
  IF sorted = << >> THEN << r >>
  ELSE IF Head(sorted).match_percentage > r.match_percentage
       THEN << Head(sorted) >> \o InsertDescBeforeTies(r, Tail(sorted))
       ELSE << r >> \o sorted

(* list.sort(key=match_percentage, reverse=True): a stable sort; with    *)
(* reverse=True elements with equal keys keep their original order.      *)
RECURSIVE InsertDesc(_, _)
InsertDesc(r, sorted) ==
  IF sorted = << >> THEN << r >>
  ELSE IF Head(sorted).match_percentage >= r.match_percentage
       THEN << Head(sorted) >> \o InsertDesc(r, Tail(sorted))
       ELSE << r >> \o sorted

RECURSIVE SortDesc(_, _)
SortDesc(recs, sorted) ==
  IF recs = << >> THEN sorted ELSE SortDesc(Tail(recs), InsertDesc(Head(recs), sorted))

(* lines 328-339: the loop body for one field *)
Recommendation(fields, i, skills, keywords, experience_text) ==
  [ field |-> fields[i].name,
    match_percentage |->
      ExperienceBonus(calculate_match_score(skills, keywords, fields[i]),
                      fields[i].name, experience_text),
    job_search_url |-> get_job_search_url(fields[i].name) ]

(* The loop skipping the fields that score 0. *)
RecommendationsNonZero(fields, skills, keywords, experience_text) ==
  LET NonZero(r) == r.match_percentage > 0
  IN  SelectSeq([ i \in 1..Len(fields) |->
                    Recommendation(fields, i, skills, keywords, experience_text) ], NonZero)

(* lines 327-339: the list built by the loop, before the sort *)
Recommendations(fields, skills, keywords, experience_text) ==
  [ i \in 1..Len(fields) |-> Recommendation(fields, i, skills, keywords, experience_text) ]

get_job_recommendations(fields, skills, keywords, experience_text) ==
  SortDesc(Recommendations(fields, skills, keywords, experience_text), << >>)

(* The values calculate_match_score returned to get_job_recommendations, *)
(* one per field in taxonomy order (match_score before the bonus).       *)
MatchScores(fields, skills, keywords) ==
  [ i \in 1..Len(fields) |-> calculate_match_score(skills, keywords, fields[i]) ]

----------------------------------------------------------------------------
(* The regular-expression and str primitives of ResumeParser.  The texts  *)
(* are ASCII: \w is [A-Za-z0-9_], \s and str.strip() whitespace           *)
(* is space, \t, \n, \r, \f.                                              *)

Whitespace == { " ", "\t", "\n", "\r", "\f" }

IsSpace(ch) == ch \in Whitespace
IsDigit(ch) == ch \in DigitSet
IsLetter(ch) == ch \in UpperSet \cup LowerSet
IsWordChar(ch) == IsLetter(ch) \/ IsDigit(ch) \/ ch = "_"

(* s[i] exists and is a \w character *)
WordAt(s, i) == i >= 1 /\ i <= Len(s) /\ IsWordChar(Char(s, i))

(* \b between s[i-1] and s[i], for i in 1..Len(s)+1 *)
Boundary(s, i) == WordAt(s, i - 1) # WordAt(s, i)

SetMin(S) == CHOOSE x \in S : \A y \in S : x <= y
SetMax(S) == CHOOSE x \in S : \A y \in S : x >= y

(* The k-th smallest element of the set of integers S, k in 1..|S|. *)
Nth(S, k) == CHOOSE x \in S : Cardinality({ y \in S : y < x }) = k - 1

(* str.strip() *)
strip(s) ==
  LET keep == { i \in 1..Len(s) : ~IsSpace(Char(s, i)) }
  IN  IF keep = {} THEN "" ELSE SubSeq(s, SetMin(keep), SetMax(keep))

(* str.split('\n') *)
split_lines(s) ==
  LET nl == { i \in 1..Len(s) : Char(s, i) = "\n" }
      n == Cardinality(nl)
      cut(k) == IF k = 0 THEN 0 ELSE IF k = n + 1 THEN Len(s) + 1 ELSE Nth(nl, k)
  IN  [ k \in 1..(n + 1) |-> SubSeq(s, cut(k - 1) + 1, cut(k) - 1) ]

(* ' '.join(xs) *)
RECURSIVE join_space(_)
join_space(xs) ==
  IF Len(xs) = 0 THEN ""
  ELSE IF Len(xs) = 1 THEN xs[1]
  ELSE xs[1] \o " " \o join_space(Tail(xs))

(* xs[:n] *)
Take(xs, n) == SubSeq(xs, 1, Min(n, Len(xs)))

(* the literal lit occurs in s at position i *)
LiteralAt(s, i, lit) ==
  /\ i >= 1
  /\ i + Len(lit) - 1 <= Len(s)
  /\ SubSeq(s, i, i + Len(lit) - 1) = lit

(* re.search(r'\b' + re.escape(lit) + r'\b', s) finds a match *)
SearchWord(s, lit) ==
  \E i \in 1..(Len(s) - Len(lit) + 1) :
    /\ Char(s, i) = Char(lit, 1)
    /\ LiteralAt(s, i, lit)
    /\ Boundary(s, i)
    /\ Boundary(s, i + Len(lit))

(* re.search(r'\b(a|b|...)\b', s, re.IGNORECASE) finds a match, for the   *)
(* lower-case literals lits                                               *)
SearchAnyWord(s, lits) ==
  LET s_lower == lower(s)
  IN  \E k \in 1..Len(lits) : SearchWord(s_lower, lits[k])

----------------------------------------------------------------------------
(* ResumeParser.extract_contact_info *)

(* The last index of the run of characters of class that starts at from   *)
(* (from - 1 when s[from] is not in class).                               *)
RunEnd(s, from, class) ==
  SetMin({ e \in (from - 1)..Len(s) : e = Len(s) \/ Char(s, e + 1) \notin class })

EmailLocalChars == UpperSet \cup LowerSet \cup DigitSet \cup { ".", "_", "%", "+", "-" }
EmailDomainChars == UpperSet \cup LowerSet \cup DigitSet \cup { ".", "-" }
EmailTldChars == UpperSet \cup LowerSet \cup { "|" }

(* The end of the match of                                                 *)
(*   \b[A-Za-z0-9._%+-]+@[A-Za-z0-9.-]+\.[A-Z|a-z]{2,}\b                   *)
(* that starts at i, 0 when there is none.  The local part runs to the    *)
(* '@'; the greedy domain gives back to its last '.' that is followed by  *)
(* two or more TLD characters ending at a \b, and the TLD is the longest  *)
(* such.                                                                   *)
EmailEndAt(s, i) ==
  IF ~(Boundary(s, i) /\ Char(s, i) \in EmailLocalChars) THEN 0
  ELSE
    LET at == RunEnd(s, i, EmailLocalChars) + 1
    IN  IF at > Len(s) \/ Char(s, at) # "@" THEN 0
        ELSE
          LET m == RunEnd(s, at + 1, EmailDomainChars)
              TldEnds(e) ==
                { t \in (e + 3)..RunEnd(s, e + 2, EmailTldChars) : Boundary(s, t + 1) }
              dots == { e \in (at + 1)..(m - 1) : Char(s, e + 1) = "." /\ TldEnds(e) # {} }
          IN  IF dots = {} THEN 0 ELSE SetMax(TldEnds(SetMax(dots)))

(* re.search(email_pattern, text).group(), "" when there is no match *)
search_email(text) ==
  LET starts == { i \in 1..Len(text) : Char(text, i) \in EmailLocalChars /\ EmailEndAt(text, i) # 0 }
  IN  IF starts = {} THEN ""
      ELSE SubSeq(text, SetMin(starts), EmailEndAt(text, SetMin(starts)))

PhoneSeparators == { "-", ".", " ", "\t", "\n", "\r", "\f" }

Optional(chars) == [ kind |-> "optional", chars |-> chars, n |-> 1 ]
DigitRun(n) == [ kind |-> "digits", chars |-> DigitSet, n |-> n ]
WordBoundary == [ kind |-> "boundary", chars |-> {}, n |-> 0 ]

(* (\+?1?[-.\s]?)?\(?[0-9]{3}\)?[-.\s]?[0-9]{3}[-.\s]?[0-9]{4} *)
PhonePattern1 ==
  << Optional({ "+" }), Optional({ "1" }), Optional(PhoneSeparators), Optional({ "(" }),
     DigitRun(3), Optional({ ")" }), Optional(PhoneSeparators), DigitRun(3),
     Optional(PhoneSeparators), DigitRun(4) >>

(* \b\d{3}[-.]?\d{3}[-.]?\d{4}\b *)
PhonePattern2 ==
  << WordBoundary, DigitRun(3), Optional({ "-", "." }), DigitRun(3), Optional({ "-", "." }),
     DigitRun(4), WordBoundary >>

(* The backtracking match of the elements k.. of a pattern at pos: the    *)
(* position after the match, 0 when there is none.  An optional element   *)
(* is greedy: taken first, skipped when the rest then fails.              *)
RECURSIVE MatchFrom(_, _, _, _)
MatchFrom(s, pos, elems, k) ==
  IF k > Len(elems) THEN pos
  ELSE
    LET el == elems[k]
    IN  IF el.kind = "boundary"
        THEN IF Boundary(s, pos) THEN MatchFrom(s, pos, elems, k + 1) ELSE 0
        ELSE IF el.kind = "digits"
        THEN IF /\ pos + el.n - 1 <= Len(s)
                /\ \A j \in pos..(pos + el.n - 1) : IsDigit(Char(s, j))
             THEN MatchFrom(s, pos + el.n, elems, k + 1)
             ELSE 0
        ELSE
          LET taken == IF pos <= Len(s) /\ Char(s, pos) \in el.chars
                       THEN MatchFrom(s, pos + 1, elems, k + 1)
                       ELSE 0
          IN  IF taken # 0 THEN taken ELSE MatchFrom(s, pos, elems, k + 1)

(* re.search(pattern, text).group(), "" when there is no match *)
search_pattern(text, elems) ==
  LET starts == { i \in 1..Len(text) : MatchFrom(text, i, elems, 1) # 0 }
  IN  IF starts = {} THEN ""
      ELSE SubSeq(text, SetMin(starts), MatchFrom(text, SetMin(starts), elems, 1) - 1)

(* lines 449-457: the first pattern that matches gives the phone *)
search_phone(text) ==
  IF search_pattern(text, PhonePattern1) # "" THEN search_pattern(text, PhonePattern1)
  ELSE search_pattern(text, PhonePattern2)

LinkedinPrefix == "linkedin.com/in/"
LinkedinHandleChars == UpperSet \cup LowerSet \cup DigitSet \cup { "_", "-" }

(* re.search(r'linkedin\.com/in/[\w-]+', text, re.IGNORECASE).group() *)
search_linkedin(text) ==
  LET text_lower == lower(text)
      n == Len(LinkedinPrefix)
      starts == { i \in 1..(Len(text) - n) :
                    /\ LiteralAt(text_lower, i, LinkedinPrefix)
                    /\ Char(text, i + n) \in LinkedinHandleChars }
  IN  IF starts = {} THEN ""
      ELSE SubSeq(text, SetMin(starts), RunEnd(text, SetMin(starts) + n, LinkedinHandleChars))

NameHeaders == << "objective", "summary", "experience", "education" >>

(* [line.strip() for line in text.split('\n') if line.strip()] *)
stripped_lines(text) ==
  LET lines == split_lines(text)
      NonBlank(line) == strip(line) # ""
      kept == SelectSeq(lines, NonBlank)
  IN  [ i \in 1..Len(kept) |-> strip(kept[i]) ]

(* len(line.split()) *)
TokenCount(line) ==
  Cardinality({ i \in 1..Len(line) :
                  ~IsSpace(Char(line, i)) /\ (i = 1 \/ IsSpace(Char(line, i - 1))) })

(* re.search(r'\d{3}', line) *)
HasThreeDigits(line) ==
  \E i \in 1..(Len(line) - 2) : \A k \in i..(i + 2) : IsDigit(Char(line, k))

(* lines 466-470: the line is taken as the name *)
IsNameLine(line) ==
  LET line_lower == lower(line)
  IN  /\ ~\E h \in 1..Len(NameHeaders) : Contains(line_lower, NameHeaders[h])
      /\ ~(Contains(line, "@") \/ HasThreeDigits(line))
      /\ TokenCount(line) <= 4
      /\ Len(line) < 50
      /\ Char(line, 1) \in UpperSet

(* The name searched among all the non-blank lines (no `lines[:5]`). *)
search_name_all_lines(text) ==
  LET lines == stripped_lines(text)
      hits == { i \in 1..Len(lines) : IsNameLine(lines[i]) }
  IN  IF hits = {} THEN "" ELSE lines[SetMin(hits)]

MaxNameLines == 5

(* lines 464-472: "" when no line is taken *)
search_name(text) ==
  LET lines == Take(stripped_lines(text), MaxNameLines)
      hits == { i \in 1..Len(lines) : IsNameLine(lines[i]) }
  IN  IF hits = {} THEN "" ELSE lines[SetMin(hits)]

(* The dict contact_info: a key is present when its search matched. *)
extract_contact_info(text) ==
  LET found == [ email |-> search_email(text), phone |-> search_phone(text),
                 linkedin |-> search_linkedin(text), name |-> search_name(text) ]
      keys == { k \in { "email", "phone", "linkedin", "name" } : found[k] # "" }
  IN  [ k \in keys |-> found[k] ]

MaxRawText == 1000

----------------------------------------------------------------------------
(* ResumeParser.extract_skills *)

(* PYTHONHASHSEED: the order in which a set of str is iterated is fixed   *)
(* by the interpreter's hash seed, not by the program.  A seed orders     *)
(* the skills by (position in all_skills) * seed modulo HashModulus.      *)
HashModulus == 149

FirstIndex(xs, x) == SetMin({ i \in 1..Len(xs) : xs[i] = x })

HashKey(skills, seed, x) == (FirstIndex(skills, x) * seed) % HashModulus

(* list(set(xs))[:1]: a cap applied to the list in set order. *)
list_of_set_capped(skills, seed, xs) ==
  LET S == Range(xs)
      key == [ x \in S |-> HashKey(skills, seed, x) ]
      keys == { key[x] : x \in S }
  IN  [ i \in 1..(IF S = {} THEN 0 ELSE 1) |-> CHOOSE x \in S : key[x] = Nth(keys, i) ]

(* The list returned as collected (`return found_skills`). *)
list_of_set_as_collected(skills, seed, xs) == xs

(* list(set(xs)) under the hash seed *)
list_of_set(skills, seed, xs) ==
  LET S == Range(xs)
      key == [ x \in S |-> HashKey(skills, seed, x) ]
      keys == { key[x] : x \in S }
  IN  [ i \in 1..Cardinality(S) |-> CHOOSE x \in S : key[x] = Nth(keys, i) ]

(* lines 477-482: found_skills, in the order of all_skills *)
found_skills(skills, text) ==
  LET text_lower == lower(text)
      Found(skill) == SearchWord(text_lower, lower(skill))
  IN  SelectSeq(skills, Found)

extract_skills(skills, seed, text) == list_of_set(skills, seed, found_skills(skills, text))

----------------------------------------------------------------------------
(* ResumeParser.extract_experience *)

ExperienceHeaders == << "experience", "employment", "work history" >>
(* The stop words without "education". *)
ExperienceStopsWithoutEducation == << "skills", "certifications" >>

ExperienceStops == << "education", "skills", "certifications" >>
CompanySuffixes == << "Inc", "LLC", "Corp", "Company", "Ltd" >>

(* re.search(r'\b\d{4}\b', line) *)
SearchYear(line) ==
  \E i \in 1..(Len(line) - 3) :
    /\ \A k \in i..(i + 3) : IsDigit(Char(line, k))
    /\ Boundary(line, i)
    /\ Boundary(line, i + 4)

(* re.search(r'\b\w+\s*(Inc|LLC|Corp|Company|Ltd)\b', line): the suffix   *)
(* at j, a word boundary after it, and before it optional whitespace      *)
(* preceded by at least one \w character (whose run starts at a \b).      *)
SearchCompany(line) ==
  \E k \in 1..Len(CompanySuffixes) :
    \E j \in 2..(Len(line) - Len(CompanySuffixes[k]) + 1) :
      /\ LiteralAt(line, j, CompanySuffixes[k])
      /\ Boundary(line, j + Len(CompanySuffixes[k]))
      /\ \E e \in 1..(j - 1) :
           /\ WordAt(line, e)
           /\ \A m \in (e + 1)..(j - 1) : IsSpace(Char(line, m))

(* line 501: re.search(r'\b(\d{4}|\w+\s*(Inc|LLC|Corp|Company|Ltd))\b', line) *)
IsEntryBoundary(line) == SearchYear(line) \/ SearchCompany(line)

(* The loop appending every other line of the section to the current      *)
(* entry, begun or not (`else: current_exp.append(line)`).                *)
RECURSIVE ExperienceLoopKeepingLeadLines(_, _, _, _, _)
ExperienceLoopKeepingLeadLines(lines, i, exp_started, current_exp, experience) ==
  IF i > Len(lines)
  THEN [ current_exp |-> current_exp, experience |-> experience ]
  ELSE
    LET line == strip(lines[i])
    IN  IF line = ""
        THEN ExperienceLoopKeepingLeadLines(lines, i + 1, exp_started, current_exp, experience)
        ELSE IF SearchAnyWord(line, ExperienceHeaders)
        THEN ExperienceLoopKeepingLeadLines(lines, i + 1, TRUE, current_exp, experience)
        ELSE IF exp_started /\ SearchAnyWord(line, ExperienceStops)
        THEN [ current_exp |-> current_exp, experience |-> experience ]
        ELSE IF exp_started /\ IsEntryBoundary(line)
        THEN ExperienceLoopKeepingLeadLines(lines, i + 1, exp_started, << line >>,
                                            IF current_exp # << >>
                                            THEN Append(experience, join_space(current_exp))
                                            ELSE experience)
        ELSE IF exp_started
        THEN ExperienceLoopKeepingLeadLines(lines, i + 1, exp_started,
                                            Append(current_exp, line), experience)
        ELSE ExperienceLoopKeepingLeadLines(lines, i + 1, exp_started, current_exp, experience)

(* The loop testing the header pattern only until the section has begun   *)
(* (`if not exp_started and re.search(header, ...)`).                     *)
RECURSIVE ExperienceLoopFirstHeaderOnly(_, _, _, _, _)
ExperienceLoopFirstHeaderOnly(lines, i, exp_started, current_exp, experience) ==
  IF i > Len(lines)
  THEN [ current_exp |-> current_exp, experience |-> experience ]
  ELSE
    LET line == strip(lines[i])
    IN  IF line = ""
        THEN ExperienceLoopFirstHeaderOnly(lines, i + 1, exp_started, current_exp, experience)
        ELSE IF ~exp_started /\ SearchAnyWord(line, ExperienceHeaders)
        THEN ExperienceLoopFirstHeaderOnly(lines, i + 1, TRUE, current_exp, experience)
        ELSE IF exp_started /\ SearchAnyWord(line, ExperienceStops)
        THEN [ current_exp |-> current_exp, experience |-> experience ]
        ELSE IF exp_started /\ IsEntryBoundary(line)
        THEN ExperienceLoopFirstHeaderOnly(lines, i + 1, exp_started, << line >>,
                                           IF current_exp # << >>
                                           THEN Append(experience, join_space(current_exp))
                                           ELSE experience)
        ELSE IF exp_started /\ current_exp # << >>
        THEN ExperienceLoopFirstHeaderOnly(lines, i + 1, exp_started,
                                           Append(current_exp, line), experience)
        ELSE ExperienceLoopFirstHeaderOnly(lines, i + 1, exp_started, current_exp, experience)

(* The loop leaving the section at a stop line instead of ending          *)
(* (`exp_started = False; continue`): a later header starts it again.     *)
RECURSIVE ExperienceLoopResuming(_, _, _, _, _)
ExperienceLoopResuming(lines, i, exp_started, current_exp, experience) ==
  IF i > Len(lines)
  THEN [ current_exp |-> current_exp, experience |-> experience ]
  ELSE
    LET line == strip(lines[i])
    IN  IF line = ""
        THEN ExperienceLoopResuming(lines, i + 1, exp_started, current_exp, experience)
        ELSE IF SearchAnyWord(line, ExperienceHeaders)
        THEN ExperienceLoopResuming(lines, i + 1, TRUE, current_exp, experience)
        ELSE IF exp_started /\ SearchAnyWord(line, ExperienceStops)
        THEN ExperienceLoopResuming(lines, i + 1, FALSE, current_exp, experience)
        ELSE IF exp_started /\ IsEntryBoundary(line)
        THEN ExperienceLoopResuming(lines, i + 1, exp_started, << line >>,
                                    IF current_exp # << >>
                                    THEN Append(experience, join_space(current_exp))
                                    ELSE experience)
        ELSE IF exp_started /\ current_exp # << >>
        THEN ExperienceLoopResuming(lines, i + 1, exp_started, Append(current_exp, line),
                                    experience)
        ELSE ExperienceLoopResuming(lines, i + 1, exp_started, current_exp, experience)

(* lines 491-507: the loop from line i on; stops at the break. *)
RECURSIVE ExperienceLoop(_, _, _, _, _)
ExperienceLoop(lines, i, exp_started, current_exp, experience) ==
  IF i > Len(lines)
  THEN [ current_exp |-> current_exp, experience |-> experience ]
  ELSE
    LET line == strip(lines[i])
    IN  IF line = ""
        THEN ExperienceLoop(lines, i + 1, exp_started, current_exp, experience)
        ELSE IF SearchAnyWord(line, ExperienceHeaders)
        THEN ExperienceLoop(lines, i + 1, TRUE, current_exp, experience)
        ELSE IF exp_started /\ SearchAnyWord(line, ExperienceStops)
        THEN [ current_exp |-> current_exp, experience |-> experience ]
        ELSE IF exp_started /\ IsEntryBoundary(line)
        THEN ExperienceLoop(lines, i + 1, exp_started, << line >>,
                            IF current_exp # << >>
                            THEN Append(experience, join_space(current_exp))
                            ELSE experience)
        ELSE IF exp_started /\ current_exp # << >>
        THEN ExperienceLoop(lines, i + 1, exp_started, Append(current_exp, line), experience)
        ELSE ExperienceLoop(lines, i + 1, exp_started, current_exp, experience)

(* The list without the flush of lines 509-510. *)
experience_entries_without_flush(text) ==
  ExperienceLoop(split_lines(text), 1, FALSE, << >>, << >>).experience

(* lines 486-510: the list before the slice of line 511 *)
experience_entries(text) ==
  LET r == ExperienceLoop(split_lines(text), 1, FALSE, << >>, << >>)
  IN  IF r.current_exp # << >>
      THEN Append(r.experience, join_space(r.current_exp))
      ELSE r.experience

MaxExperience == 5

(* extract_experience without the slice of line 511. *)
extract_experience_unsliced(text) == experience_entries(text)

extract_experience(text) == Take(experience_entries(text), MaxExperience)

----------------------------------------------------------------------------
(* ResumeParser.extract_education *)

DegreePatterns ==
  << "bachelor", "master", "phd", "ph.d", "mba", "associate", "diploma",
     "b.s.", "b.a.", "m.s.", "m.a.", "b.e.", "b.tech", "m.tech" >>
EduKeywords == << "university", "college", "institute", "school", "academy" >>
EducationHeaders == << "education" >>
EducationStops == << "experience", "skills", "certifications", "projects" >>

(* any(re.search(pattern, line, re.IGNORECASE) for pattern in degree_patterns) *)
MatchesDegree(line) == SearchAnyWord(line, DegreePatterns)

(* any(keyword in line.lower() for keyword in edu_keywords) *)
HasEduKeyword(line) ==
  LET line_lower == lower(line)
  IN  \E k \in 1..Len(EduKeywords) : Contains(line_lower, EduKeywords[k])

(* The loop with a header line that sets the flag and is then tested like *)
(* any other line (no `continue` after `edu_started = True`).             *)
RECURSIVE EducationLoopHeaderFallsThrough(_, _, _, _)
EducationLoopHeaderFallsThrough(lines, i, edu_started, education) ==
  IF i > Len(lines)
  THEN education
  ELSE
    LET line == strip(lines[i])
        started == edu_started \/ SearchAnyWord(line, EducationHeaders)
    IN  IF line = ""
        THEN EducationLoopHeaderFallsThrough(lines, i + 1, edu_started, education)
        ELSE IF started /\ SearchAnyWord(line, EducationStops)
        THEN education
        ELSE IF /\ started \/ MatchesDegree(line)
                /\ HasEduKeyword(line) \/ MatchesDegree(line)
        THEN EducationLoopHeaderFallsThrough(lines, i + 1, started, Append(education, line))
        ELSE EducationLoopHeaderFallsThrough(lines, i + 1, started, education)

(* The loop taking lines only inside the section (`if edu_started:`). *)
RECURSIVE EducationLoopSectionOnly(_, _, _, _)
EducationLoopSectionOnly(lines, i, edu_started, education) ==
  IF i > Len(lines)
  THEN education
  ELSE
    LET line == strip(lines[i])
    IN  IF line = ""
        THEN EducationLoopSectionOnly(lines, i + 1, edu_started, education)
        ELSE IF SearchAnyWord(line, EducationHeaders)
        THEN EducationLoopSectionOnly(lines, i + 1, TRUE, education)
        ELSE IF edu_started /\ SearchAnyWord(line, EducationStops)
        THEN education
        ELSE IF /\ edu_started
                /\ HasEduKeyword(line) \/ MatchesDegree(line)
        THEN EducationLoopSectionOnly(lines, i + 1, edu_started, Append(education, line))
        ELSE EducationLoopSectionOnly(lines, i + 1, edu_started, education)

(* lines 523-535: the loop from line i on; stops at the break. *)
RECURSIVE EducationLoop(_, _, _, _)
EducationLoop(lines, i, edu_started, education) ==
  IF i > Len(lines)
  THEN education
  ELSE
    LET line == strip(lines[i])
    IN  IF line = ""
        THEN EducationLoop(lines, i + 1, edu_started, education)
        ELSE IF SearchAnyWord(line, EducationHeaders)
        THEN EducationLoop(lines, i + 1, TRUE, education)
        ELSE IF edu_started /\ SearchAnyWord(line, EducationStops)
        THEN education
        ELSE IF /\ edu_started \/ MatchesDegree(line)
                /\ HasEduKeyword(line) \/ MatchesDegree(line)
        THEN EducationLoop(lines, i + 1, edu_started, Append(education, line))
        ELSE EducationLoop(lines, i + 1, edu_started, education)

(* lines 514-535: the list before the slice of line 536 *)
education_entries(text) == EducationLoop(split_lines(text), 1, FALSE, << >>)

MaxEducation == 3

extract_education(text) == Take(education_entries(text), MaxEducation)

----------------------------------------------------------------------------
(* ResumeParser.extract_keywords *)

(* re.findall(r'\b[a-z]+\b', s): the maximal runs of [a-z] that have a    *)
(* non-\w character (or an end of s) on both sides, in order.             *)
TokenEnd(s, i) ==
  SetMin({ e \in i..Len(s) : e = Len(s) \/ Char(s, e + 1) \notin LowerSet })

find_words(s) ==
  LET starts == { i \in 1..Len(s) :
                    /\ Char(s, i) \in LowerSet
                    /\ ~WordAt(s, i - 1)
                    /\ ~WordAt(s, TokenEnd(s, i) + 1) }
  IN  [ k \in 1..Cardinality(starts) |->
          LET i == Nth(starts, k) IN SubSeq(s, i, TokenEnd(s, i)) ]

(* relevant_words with the length test on both branches                  *)
(* (`if len(word) > 3 and (word in job_keywords or word in skills)`).     *)
relevant_words_longer_than_3(keywords, skills, words) ==
  LET skills_lower == LowerAll(skills)
      Relevant(word) == Len(word) > 3 /\ (IsIn(word, keywords) \/ IsIn(word, skills_lower))
  IN  SelectSeq(words, Relevant)

(* relevant_words without the vocabulary tests (every token is counted). *)
relevant_words_unfiltered(keywords, skills, words) == words

(* lines 541-546: relevant_words *)
relevant_words(keywords, skills, words) ==
  LET skills_lower == LowerAll(skills)
      Relevant(word) ==
        \/ IsIn(word, keywords) /\ Len(word) > 3
        \/ IsIn(word, skills_lower)
  IN  SelectSeq(words, Relevant)

(* str.title(): a letter is upper-cased when no letter precedes it and    *)
(* lower-cased otherwise.                                                 *)
RECURSIVE TitleFrom(_, _, _)
TitleFrom(s, a, b) ==
  IF a > b THEN ""
  ELSE IF a = b
       THEN IF a > 1 /\ IsLetter(Char(s, a - 1))
            THEN LowerChar(Char(s, a))
            ELSE UpperChar(Char(s, a))
       ELSE LET h == (a + b) \div 2
            IN  TitleFrom(s, a, h) \o TitleFrom(s, h + 1, b)

title(s) == TitleFrom(s, 1, Len(s))

Count(xs, x) == Cardinality({ i \in 1..Len(xs) : xs[i] = x })

(* Counter(words): the distinct words in the order of their first         *)
(* occurrence, each with its count.                                       *)
Counter(words) ==
  LET firsts == { i \in 1..Len(words) : \A j \in 1..(i - 1) : words[j] # words[i] }
  IN  [ k \in 1..Cardinality(firsts) |->
          LET w == words[Nth(firsts, k)] IN [ word |-> w, count |-> Count(words, w) ] ]

(* The sort with equal counts in reverse order of first occurrence        *)
(* (insertion before the first record that is not greater).               *)
RECURSIVE InsertByCountTiesLast(_, _)
InsertByCountTiesLast(r, sorted) ==
  IF sorted = << >> THEN << r >>
  ELSE IF Head(sorted).count > r.count
       THEN << Head(sorted) >> \o InsertByCountTiesLast(r, Tail(sorted))
       ELSE << r >> \o sorted

(* Counter.most_common(n): sorted by count, descending, the sort stable   *)
(* (equal counts stay in order of first occurrence), then the first n.    *)
RECURSIVE InsertByCount(_, _)
InsertByCount(r, sorted) ==
  IF sorted = << >> THEN << r >>
  ELSE IF Head(sorted).count >= r.count
       THEN << Head(sorted) >> \o InsertByCount(r, Tail(sorted))
       ELSE << r >> \o sorted

RECURSIVE SortByCount(_, _)
SortByCount(items, sorted) ==
  IF items = << >> THEN sorted ELSE SortByCount(Tail(items), InsertByCount(Head(items), sorted))

most_common(items, n) == Take(SortByCount(items, << >>), n)

MaxKeywords == 20

extract_keywords(keywords, skills, text) ==
  LET words == find_words(lower(text))
      word_freq == Counter(relevant_words(keywords, skills, words))
      top == most_common(word_freq, MaxKeywords)
  IN  [ i \in 1..Len(top) |-> [ word |-> title(top[i].word), count |-> top[i].count ] ]

----------------------------------------------------------------------------
(* ResumeParser.parse_resume *)

SupportedExtensions == { "pdf", "docx", "doc", "txt" }

(* filename.lower().split('.')[-1] *)
file_extension(filename) ==
  LET name == lower(filename)
      dots == { i \in 1..Len(name) : Char(name, i) = "." }
  IN  IF dots = {} THEN name ELSE SubSeq(name, SetMax(dots) + 1, Len(name))

(* lines 565-572: the returned dict *)
parsed_record(contact_info, skills, experience, education, keywords, text) ==
  [ contact_info |-> contact_info, skills |-> skills, experience |-> experience,
    education |-> education, keywords |-> keywords,
    raw_text |-> SubSeq(text, 1, Min(MaxRawText, Len(text))) ]

----------------------------------------------------------------------------
(* Callers, calls and their results. *)

NumCallers == 2
Callers == 1..NumCallers

NoCall ==
  [ op |-> "none", filename |-> "", text |-> "", skills |-> << >>, keywords |-> << >>,
    experience_text |-> "", job_field_data |-> << >> ]

NoLocals ==
  [ text |-> "", contact_info |-> << >>, skills |-> << >>, experience |-> << >>,
    education |-> << >>, keywords |-> << >>, ran |-> << >>, failed |-> "",
    parsed_data |-> << >>, match_scores |-> << >> ]

NoResult == [ kind |-> "none", value |-> << >>, error |-> "" ]

Returned(v) == [ kind |-> "return", value |-> v, error |-> "" ]
Raised(e) == [ kind |-> "raise", value |-> << >>, error |-> e ]

(* current_user of a request without a login; user_id of its row is NULL. *)
Anonymous == 0

NoRequest ==
  [ op |-> "none", stage |-> "idle", user |-> Anonymous, file_path |-> << >>,
    parsed_data |-> << >>, resume_id |-> 0, status |-> 0, body |-> {} ]

(* The server after start-up: no request, an empty upload folder and an   *)
(* empty table.                                                            *)
InitWeb ==
  /\ now = 0
  /\ upload_folder = << >>
  /\ resumes = {}
  /\ request = [ c \in Callers |-> NoRequest ]

(* The module-level objects after `parser = ResumeParser()` and          *)
(* `recommender = JobFieldRecommender()`.                                 *)
InitTaxonomy ==
  /\ job_fields = JobFields
  /\ skills_database = SkillsDatabase
  /\ job_keywords = JobKeywords
  /\ all_skills = AllSkills

----------------------------------------------------------------------------
(* Arguments of get_job_recommendations. *)

MaxUserSkills == 2
MaxUserKeywords == 2

SkillPool == << "python", "Docker", "JAVA", "Cobol" >>
KeywordPool == << "Developer", "DATA", "full-stack", "Client" >>

ExperienceTexts ==
  { "",
    "Senior software engineer at Acme Inc 2019-2021",
    "QA Engineer 2018 Initech LLC",
    "software engineer data scientist data engineer devops engineer cloud architect "
      \o "full stack developer mobile developer machine learning engineer "
      \o "business analyst qa engineer" }

(* The sublists of xs with at most n elements, in the order of xs. *)
SubLists(xs, n) ==
  { [ i \in 1..Cardinality(S) |->
        xs[CHOOSE k \in S : Cardinality({ j \in S : j < k }) = i - 1] ] :
    S \in { T \in SUBSET (1..Len(xs)) : Cardinality(T) <= n } }

Keyword(w) == [ word |-> w, count |-> 1 ]

KeywordsOf(ws) == [ i \in 1..Len(ws) |-> Keyword(ws[i]) ]

Cased(mode, s) == IF mode = "upper" THEN upper(s) ELSE s

RecommendArgs(skills, keywords, experience_text) ==
  [ op |-> "get_job_recommendations", filename |-> "", text |-> "", skills |-> skills,
    keywords |-> keywords, experience_text |-> experience_text, job_field_data |-> << >> ]

(* A field's own lists as the candidate's, as stored and in upper case. *)
FullMatchArgs ==
  { RecommendArgs([ k \in 1..Len(JobFields[i].skills) |-> Cased(m, JobFields[i].skills[k]) ],
                  [ k \in 1..Len(JobFields[i].keywords) |->
                      Keyword(Cased(m, JobFields[i].keywords[k])) ],
                  e) :
      i \in 1..Len(JobFields), m \in { "same", "upper" }, e \in ExperienceTexts }

SmallArgs ==
  { RecommendArgs(s, KeywordsOf(k), e) :
      s \in SubLists(SkillPool, MaxUserSkills),
      k \in SubLists(KeywordPool, MaxUserKeywords),
      e \in ExperienceTexts }

RecommendInputs == FullMatchArgs \cup SmallArgs

----------------------------------------------------------------------------
(* recommender.get_job_recommendations(skills, keywords, experience_text) *)
(* called by caller c.                                                     *)

GetJobRecommendations(c) ==
  /\ pc[c] = "get_job_recommendations"
  /\ local' = [ local EXCEPT ![c].match_scores =
                  MatchScores(job_fields, call[c].skills, call[c].keywords) ]
  /\ result' = [ result EXCEPT ![c] =
                   Returned(get_job_recommendations(job_fields, call[c].skills,
                                                    call[c].keywords,
                                                    call[c].experience_text)) ]
  /\ pc' = [ pc EXCEPT ![c] = "returned" ]
  /\ UNCHANGED web
  /\ UNCHANGED << taxonomy, hash_seed, call >>

InitRecommend ==
  /\ InitTaxonomy
  /\ InitWeb
  /\ \E args \in RecommendInputs :
       call = [ c \in Callers |-> IF c = 1 THEN args ELSE NoCall ]
  /\ hash_seed = [ c \in Callers |-> 1 ]
  /\ pc = [ c \in Callers |-> IF c = 1 THEN "get_job_recommendations" ELSE "idle" ]
  /\ local = [ c \in Callers |-> NoLocals ]
  /\ result = [ c \in Callers |-> NoResult ]

NextRecommend == GetJobRecommendations(1)

SpecRecommend == InitRecommend /\ [][NextRecommend]_vars

----------------------------------------------------------------------------
(* recommender.calculate_match_score(user_skills, user_keywords,          *)
(* job_field_data) called by caller c on the data of one field, the       *)
(* lists of the field of any length, the empty list included.             *)

MaxFieldSkills == 3
MaxFieldKeywords == 2

FieldSkillPool == << "Python", "Docker", "Java", "Rust" >>
FieldKeywordPool == << "developer", "Data", "client" >>

FieldData(skills, keywords) == [ skills |-> skills, keywords |-> keywords, weight |-> 1 ]

ScoreArgs(skills, keywords, job_field_data) ==
  [ op |-> "calculate_match_score", filename |-> "", text |-> "", skills |-> skills,
    keywords |-> keywords, experience_text |-> "", job_field_data |-> job_field_data ]

ScoreInputs ==
  { ScoreArgs(s, KeywordsOf(k), FieldData(fs, fk)) :
      s \in SubLists(SkillPool, MaxUserSkills),
      k \in SubLists(KeywordPool, MaxUserKeywords),
      fs \in SubLists(FieldSkillPool, MaxFieldSkills),
      fk \in SubLists(FieldKeywordPool, MaxFieldKeywords) }

CalculateMatchScore(c) ==
  /\ pc[c] = "calculate_match_score"
  /\ result' = [ result EXCEPT ![c] =
                   Returned(calculate_match_score(call[c].skills, call[c].keywords,
                                                  call[c].job_field_data)) ]
  /\ pc' = [ pc EXCEPT ![c] = "returned" ]
  /\ UNCHANGED web
  /\ UNCHANGED << taxonomy, hash_seed, call, local >>

InitScore ==
  /\ InitTaxonomy
  /\ InitWeb
  /\ \E args \in ScoreInputs :
       call = [ c \in Callers |-> IF c = 1 THEN args ELSE NoCall ]
  /\ hash_seed = [ c \in Callers |-> 1 ]
  /\ pc = [ c \in Callers |-> IF c = 1 THEN "calculate_match_score" ELSE "idle" ]
  /\ local = [ c \in Callers |-> NoLocals ]
  /\ result = [ c \in Callers |-> NoResult ]

NextScore == CalculateMatchScore(1)

SpecScore == InitScore /\ [][NextScore]_vars

----------------------------------------------------------------------------
(* Documents handed to parse_resume. *)

NumSeeds == 2
Seeds == 1..NumSeeds

MaxLines == 3

LinePool ==
  << "", "Jane Doe", "Experience", "Acme Inc 2019 Python AWS developer", "Education",
     "MIT Institute" >>

(* '\n'.join(lines) *)
RECURSIVE join_lines(_)
join_lines(lines) ==
  IF Len(lines) = 0 THEN ""
  ELSE IF Len(lines) = 1 THEN lines[1]
  ELSE lines[1] \o "\n" \o join_lines(Tail(lines))

(* Every text of at most MaxLines lines of the pool. *)
PoolTexts ==
  UNION { { join_lines([ i \in 1..k |-> LinePool[f[i]] ]) : f \in [ 1..k -> 1..Len(LinePool) ] } :
          k \in 0..MaxLines }

WorkHistoryText ==
  "Work History\nSoftware Engineer at Acme Inc 2019-2021\nBuilt backend services\n"
    \o "Education\nBS Computer Science"

ContactText == "Contact: jane@example.com, (415) 555-1234. linkedin.com/in/janedoe"

SixJobsText == "Experience\n2011 A\n2012 B\n2013 C\n2014 D\n2015 E\n2016 F"

FourSchoolsText == "Education\nA University\nB College\nC Institute\nD School"

ManyKeywordsText ==
  "lead team agile scrum r c go php git aws gcp nlp java ruby rust dart perl lua chef "
    \o "less sass vite lead go go"

(* A document with more entries of each kind than parse_resume keeps. *)
LongResumeText ==
  SixJobsText \o "\n" \o FourSchoolsText \o "\nSkills\n" \o ManyKeywordsText

WhitespaceText == " \t\r\n \n"

(* A skill of two categories, written in two letter cases. *)
FirebaseText == "firebase and FIREBASE with React"

(* An experience section with lines before its header, a line before its *)
(* first entry, a two-line entry, six entries, and a second header after  *)
(* its stop line.                                                          *)
SectionsText ==
  "Summary 2001\nExperience\nintro line\n2011 A\nbuilt things\n2012 B Corp\n2013 C\n"
    \o "2014 D\n2015 E\n2016 F\nSkills\nEmployment\n2020 Initech"

(* Institution and degree lines before, inside and after the education   *)
(* section.                                                                *)
SchoolsText ==
  "Springfield College\nBachelor of Science\nEducation\nMIT Institute\nnotes line\n"
    \o "B.Tech honours\nState College\nProjects\nState University"

ScenarioTexts ==
  { WorkHistoryText, ContactText, SixJobsText, FourSchoolsText, ManyKeywordsText,
    LongResumeText, WhitespaceText, "Skills: C++, C#, Python and Go", FirebaseText,
    SectionsText, SchoolsText,
    "2001 Old Corp\nExperience\nSkills and Experience\n2011 A\nwork history\nbuilt it\nSkills\n"
      \o "Employment\n2020 Initech",
    "know C++ and C# or F# with RUST",
    "Full-Stack developer, machine learning and big data backend",
    "B.Tech honours\nMaster of Education, Boston University\nBoston College\nSkills\nMIT Institute",
    "Career OBJECTIVE\njane@x.io\n \nroom 1234\nA B C D E\njane doe\nJane Doe",
    "Jane Abcdefghijklmnopqrstuvwxyzabcdefghijklmnopqrstuvwxyz\n\t Doe, Jane \r\nJohn Roe" }

Texts == PoolTexts \cup ScenarioTexts

ParseArgs(filename, text) ==
  [ op |-> "parse_resume", filename |-> filename, text |-> text, skills |-> << >>,
    keywords |-> << >>, experience_text |-> "", job_field_data |-> << >> ]

OtherFileNames == { "CV.PDF", "resume.docx", "old.doc", "notes.md", "README", "cv.txt.exe" }

ParseInputs ==
  { ParseArgs("resume.txt", t) : t \in Texts }
    \cup { ParseArgs(f, WorkHistoryText) : f \in OtherFileNames }

----------------------------------------------------------------------------
(* parser.parse_resume(file_path, filename) called by caller c, and the   *)
(* use upload_resume makes of its result.                                  *)

ExtractorSteps ==
  << "extract_contact_info", "extract_skills", "extract_experience", "extract_education",
     "extract_keywords" >>

Goto(c, label) == pc' = [ pc EXCEPT ![c] = label ] /\ UNCHANGED web

(* lines 552-560: the text of the file, by its extension *)
ParseResumeReadText(c) ==
  /\ pc[c] = "parse_resume"
  /\ IF file_extension(call[c].filename) \in SupportedExtensions
     THEN /\ local' = [ local EXCEPT ![c].text = call[c].text ]
          /\ Goto(c, "check_text")
          /\ UNCHANGED result
     ELSE /\ result' = [ result EXCEPT ![c] =
                           Raised("ValueError: Unsupported file format: "
                                    \o file_extension(call[c].filename)) ]
          /\ Goto(c, "raised")
          /\ UNCHANGED local
  /\ UNCHANGED << taxonomy, hash_seed, call >>

(* The check without the strip (`if not text:`). *)
ParseResumeCheckTextNoStrip(c) ==
  /\ pc[c] = "check_text"
  /\ IF local[c].text = ""
     THEN /\ result' = [ result EXCEPT ![c] =
                           Raised("ValueError: Could not extract text from file") ]
          /\ Goto(c, "raised")
     ELSE /\ Goto(c, "extract_contact_info")
          /\ UNCHANGED result
  /\ UNCHANGED << taxonomy, hash_seed, call, local >>

(* lines 562-563 *)
ParseResumeCheckText(c) ==
  /\ pc[c] = "check_text"
  /\ IF strip(local[c].text) = ""
     THEN /\ result' = [ result EXCEPT ![c] =
                           Raised("ValueError: Could not extract text from file") ]
          /\ Goto(c, "raised")
     ELSE /\ Goto(c, "extract_contact_info")
          /\ UNCHANGED result
  /\ UNCHANGED << taxonomy, hash_seed, call, local >>

(* line 566 *)
ExtractContactInfo(c) ==
  /\ pc[c] = "extract_contact_info"
  /\ local' = [ local EXCEPT ![c].contact_info = extract_contact_info(local[c].text),
                             ![c].ran = Append(@, "extract_contact_info") ]
  /\ Goto(c, "extract_skills")
  /\ UNCHANGED << taxonomy, hash_seed, call, result >>

(* extract_skills consuming the skills it finds from the shared list      *)
(* (`self.all_skills.remove(skill)`).                                      *)
ExtractSkillsRemoving(c) ==
  /\ pc[c] = "extract_skills"
  /\ LET found == extract_skills(all_skills, hash_seed[c], local[c].text)
     IN  /\ local' = [ local EXCEPT ![c].skills = found,
                                    ![c].ran = Append(@, "extract_skills") ]
         /\ all_skills' = SelectSeq(all_skills, LAMBDA s : ~IsIn(s, found))
  /\ Goto(c, "extract_experience")
  /\ UNCHANGED << job_fields, skills_database, job_keywords, hash_seed, call, result >>

(* line 567 *)
ExtractSkills(c) ==
  /\ pc[c] = "extract_skills"
  /\ local' = [ local EXCEPT ![c].skills = extract_skills(all_skills, hash_seed[c], local[c].text),
                             ![c].ran = Append(@, "extract_skills") ]
  /\ Goto(c, "extract_experience")
  /\ UNCHANGED << taxonomy, hash_seed, call, result >>

(* line 568 *)
ExtractExperience(c) ==
  /\ pc[c] = "extract_experience"
  /\ local' = [ local EXCEPT ![c].experience = extract_experience(local[c].text),
                             ![c].ran = Append(@, "extract_experience") ]
  /\ Goto(c, "extract_education")
  /\ UNCHANGED << taxonomy, hash_seed, call, result >>

(* line 569 *)
ExtractEducation(c) ==
  /\ pc[c] = "extract_education"
  /\ local' = [ local EXCEPT ![c].education = extract_education(local[c].text),
                             ![c].ran = Append(@, "extract_education") ]
  /\ Goto(c, "extract_keywords")
  /\ UNCHANGED << taxonomy, hash_seed, call, result >>

(* line 570 *)
ExtractKeywords(c) ==
  /\ pc[c] = "extract_keywords"
  /\ local' = [ local EXCEPT ![c].keywords = extract_keywords(job_keywords, all_skills, local[c].text),
                             ![c].ran = Append(@, "extract_keywords") ]
  /\ Goto(c, "return")
  /\ UNCHANGED << taxonomy, hash_seed, call, result >>

(* lines 565-572 and 706: the dict is returned and becomes parsed_data *)
ParseResumeReturn(c) ==
  /\ pc[c] = "return"
  /\ LET record == parsed_record(local[c].contact_info, local[c].skills, local[c].experience,
                                 local[c].education, local[c].keywords, local[c].text)
     IN  /\ result' = [ result EXCEPT ![c] = Returned(record) ]
         /\ local' = [ local EXCEPT ![c].parsed_data = record ]
  /\ Goto(c, "parsed")
  /\ UNCHANGED << taxonomy, hash_seed, call >>

(* lines 708-712: upload_resume calls the recommender with the parsed data *)
UploadResumeRecommend(c) ==
  /\ pc[c] = "parsed"
  /\ call' = [ call EXCEPT ![c].op = "get_job_recommendations",
                           ![c].skills = local[c].parsed_data.skills,
                           ![c].keywords = local[c].parsed_data.keywords,
                           ![c].experience_text =
                             IF local[c].parsed_data.experience # << >>
                             THEN join_space(local[c].parsed_data.experience)
                             ELSE "" ]
  /\ result' = [ result EXCEPT ![c] = NoResult ]
  /\ Goto(c, "get_job_recommendations")
  /\ UNCHANGED << taxonomy, hash_seed, local >>

(* The label that follows the extractor step. *)
StepAfter(step) ==
  IF step = "extract_keywords" THEN "return"
  ELSE ExtractorSteps[(CHOOSE k \in 1..Len(ExtractorSteps) : ExtractorSteps[k] = step) + 1]

(* Each extractor call wrapped in try/except: the exception is caught,    *)
(* the sub-result keeps its empty default and the next extractor runs.    *)
ExtractorRaisesSwallowed(c) ==
  /\ IsIn(pc[c], ExtractorSteps)
  /\ local' = [ local EXCEPT ![c].failed = pc[c] ]
  /\ Goto(c, StepAfter(pc[c]))
  /\ UNCHANGED << taxonomy, hash_seed, call, result >>

(* An exception raised inside the extractor caller c is about to run:     *)
(* parse_resume has no try statement, so the exception leaves it and the  *)
(* dict of lines 565-572 is never built.  `failed` names the extractor    *)
(* the exception came from.                                                *)
ExtractorRaises(c) ==
  /\ IsIn(pc[c], ExtractorSteps)
  /\ local' = [ local EXCEPT ![c].failed = pc[c] ]
  /\ result' = [ result EXCEPT ![c] = Raised("Exception in " \o pc[c]) ]
  /\ Goto(c, "raised")
  /\ UNCHANGED << taxonomy, hash_seed, call >>

Step(c) ==
  \/ ParseResumeReadText(c)
  \/ ParseResumeCheckText(c)
  \/ ExtractContactInfo(c)
  \/ ExtractSkills(c)
  \/ ExtractExperience(c)
  \/ ExtractEducation(c)
  \/ ExtractKeywords(c)
  \/ ParseResumeReturn(c)
  \/ UploadResumeRecommend(c)
  \/ GetJobRecommendations(c)

(* One request: caller 1 parses one document. *)
Init ==
  /\ InitTaxonomy
  /\ InitWeb
  /\ \E args \in ParseInputs, seed \in Seeds :
       /\ call = [ c \in Callers |-> IF c = 1 THEN args ELSE NoCall ]
       /\ hash_seed = [ c \in Callers |-> IF c = 1 THEN seed ELSE 1 ]
  /\ pc = [ c \in Callers |-> IF c = 1 THEN "parse_resume" ELSE "idle" ]
  /\ local = [ c \in Callers |-> NoLocals ]
  /\ result = [ c \in Callers |-> NoResult ]

Next == Step(1)

Spec == Init /\ [][Next]_vars

(* The labels of a caller's control. *)
Labels ==
  { "idle", "parse_resume", "check_text", "return", "parsed", "get_job_recommendations",
    "calculate_match_score", "returned", "raised" } \cup Range(ExtractorSteps)

(* Caller c is inside its request: it has neither returned nor raised. *)
Running(c) == ~(pc[c] \in { "idle", "returned", "raised" })

(* The thread of caller c is scheduled: its control moves. *)
Scheduled(c) == Running(c) /\ \E label \in Labels : pc' = [ pc EXCEPT ![c] = label ]

(* The thread of the request handler keeps being scheduled while it is    *)
(* inside the request.                                                     *)
FairSpec == Spec /\ WF_pc(Scheduled(1))

(* The same request with an extractor that may raise. *)
NextFault == Step(1) \/ ExtractorRaises(1)

SpecFault == Init /\ [][NextFault]_vars

(* Concurrent requests: every caller parses a document, the steps of the  *)
(* callers interleaved in any order.  hash_seed[c] is the str hash seed   *)
(* of the interpreter that serves caller c.                                *)
ConcurrentInputs ==
  << [ args |-> ParseArgs("resume.txt", LinePool[4]), seed |-> 1 ],
     [ args |-> ParseArgs("resume.txt", LinePool[4]), seed |-> NumSeeds ],
     [ args |-> ParseArgs("resume.txt", WorkHistoryText), seed |-> 1 ] >>

(* The callers run the same code, so a choice of inputs and the same      *)
(* choice with the callers renamed have the same behaviours: the inputs   *)
(* are handed out in the order of ConcurrentInputs.                       *)
InitConcurrent ==
  /\ InitTaxonomy
  /\ InitWeb
  /\ \E input \in [ Callers -> 1..Len(ConcurrentInputs) ] :
       /\ \A c \in Callers : c < NumCallers => input[c] <= input[c + 1]
       /\ call = [ c \in Callers |-> ConcurrentInputs[input[c]].args ]
       /\ hash_seed = [ c \in Callers |-> ConcurrentInputs[input[c]].seed ]
  /\ pc = [ c \in Callers |-> "parse_resume" ]
  /\ local = [ c \in Callers |-> NoLocals ]
  /\ result = [ c \in Callers |-> NoResult ]

NextConcurrent == \E c \in Callers : Step(c)

SpecConcurrent == InitConcurrent /\ [][NextConcurrent]_vars

----------------------------------------------------------------------------
(* The routes /api/upload, /api/resumes and /api/resumes/<id>.  A caller   *)
(* is a worker serving one request at a time; current_user is the id of   *)
(* the logged-in user, Anonymous without a login.  A path of the upload   *)
(* folder is the pair of the timestamp and the secured file name; a row   *)
(* of Resume keeps id, user_id, filename and raw_text (the other columns  *)
(* are copies of the parsed record and are left out).                      *)

NumUsers == 2
Users == 1..NumUsers

MaxTime == 1
MaxResumes == 2

(* request.files: no 'file' part, an empty name, a refused and an allowed *)
(* extension.                                                              *)
UploadFiles ==
  << [ present |-> FALSE, filename |-> "" ], [ present |-> TRUE, filename |-> "" ],
     [ present |-> TRUE, filename |-> "notes.exe" ],
     [ present |-> TRUE, filename |-> "my resume.txt" ] >>

(* The text of the uploaded document: readable, or whitespace only. *)
UploadTexts == << "Jane Doe\nPython", " \n" >>

(* werkzeug.utils.secure_filename on the names of UploadFiles: a space    *)
(* becomes an underscore.                                                  *)
RECURSIVE secure_filename(_)
secure_filename(s) ==
  IF Len(s) = 0 THEN ""
  ELSE IF Len(s) = 1 THEN (IF s = " " THEN "_" ELSE s)
  ELSE LET h == Len(s) \div 2
       IN  secure_filename(SubSeq(s, 1, h)) \o secure_filename(SubSeq(s, h + 1, Len(s)))

(* lines 699-703: f"{timestamp}_{filename}" under the upload folder; the  *)
(* timestamp has the resolution of one second.                             *)
FilePath(timestamp, original_filename) == << timestamp, secure_filename(original_filename) >>

(* os.path.exists(path) *)
Exists(path) == path \in DOMAIN upload_folder

(* file.save(path): creates the file or overwrites it. *)
Saved(path, file) ==
  [ p \in DOMAIN upload_folder \cup { path } |-> IF p = path THEN file ELSE upload_folder[p] ]

(* os.remove(path) of an existing file *)
Removed(path) == [ p \in DOMAIN upload_folder \ { path } |-> upload_folder[p] ]

(* The handler of caller c is running. *)
Serving(c) == request[c].stage \notin { "idle", "done" }

(* The handler returns: the response is kept until the caller's next request. *)
Respond(c, op, user, resume_id, status, body) ==
  request' = [ request EXCEPT ![c] =
                 [ NoRequest EXCEPT !.op = op, !.stage = "done", !.user = user,
                                    !.resume_id = resume_id, !.status = status,
                                    !.body = body ] ]

(* upload_resume returns after its file was saved. *)
Answer(c, status, body) ==
  request' = [ request EXCEPT ![c].stage = "done", ![c].file_path = << >>,
                              ![c].status = status, ![c].body = body ]

MoveTo(c, stage) == request' = [ request EXCEPT ![c].stage = stage ]

(* The integer primary key SQLite gives the next row. *)
NextId == IF resumes = {} THEN 1 ELSE SetMax({ row.id : row \in resumes }) + 1

(* lines 685-703: the request is refused, or the path of the file is made *)
UploadResume(c, user) ==
  /\ ~Serving(c)
  /\ Cardinality(resumes)
       + Cardinality({ d \in Callers : Serving(d) /\ request[d].op = "upload_resume" })
         < MaxResumes
  /\ \E i \in 1..Len(UploadFiles) :
       LET file == UploadFiles[i]
       IN  IF ~file.present
           THEN Respond(c, "upload_resume", user, 0, 400, "No file provided")
           ELSE IF file.filename = ""
           THEN Respond(c, "upload_resume", user, 0, 400, "No file selected")
           ELSE IF file_extension(file.filename) \notin SupportedExtensions
           THEN Respond(c, "upload_resume", user, 0, 400, "Invalid file type")
           ELSE request' = [ request EXCEPT ![c] =
                               [ NoRequest EXCEPT !.op = "upload_resume", !.stage = "save",
                                                  !.user = user,
                                                  !.file_path = FilePath(now, file.filename) ] ]
  /\ UNCHANGED << parsing, now, upload_folder, resumes >>

(* line 704: file.save(file_path) *)
UploadSave(c) ==
  /\ request[c].stage = "save"
  /\ \E i \in 1..Len(UploadTexts) :
       upload_folder' = Saved(request[c].file_path, [ by |-> c, text |-> UploadTexts[i] ])
  /\ MoveTo(c, "parse")
  /\ UNCHANGED << parsing, now, resumes >>

(* lines 707-714: parse_resume reads the file at file_path, whatever it   *)
(* holds by now, and raises when the file is gone or its text is blank;   *)
(* get_job_recommendations follows and does not raise.                     *)
UploadParse(c) ==
  /\ request[c].stage = "parse"
  /\ IF Exists(request[c].file_path) /\ strip(upload_folder[request[c].file_path].text) # ""
     THEN request' = [ request EXCEPT
                         ![c].stage = "commit",
                         ![c].parsed_data =
                           [ raw_text |-> Take(upload_folder[request[c].file_path].text,
                                               MaxRawText) ] ]
     ELSE MoveTo(c, "except")
  /\ UNCHANGED << parsing, now, upload_folder, resumes >>

(* lines 716-732: the row is added and committed *)
UploadCommit(c) ==
  /\ request[c].stage = "commit"
  /\ resumes' = resumes \cup { [ id |-> NextId, user_id |-> request[c].user,
                                  filename |-> request[c].file_path,
                                  raw_text |-> request[c].parsed_data.raw_text ] }
  /\ request' = [ request EXCEPT ![c].stage = "remove", ![c].resume_id = NextId ]
  /\ UNCHANGED << parsing, now, upload_folder >>

(* line 732: db.session.commit() raises (the database is locked or gone) *)
UploadCommitRaises(c) ==
  /\ request[c].stage = "commit"
  /\ MoveTo(c, "except")
  /\ UNCHANGED << parsing, now, upload_folder, resumes >>

(* lines 734-748: os.remove(file_path) and the answer; os.remove raises   *)
(* when the file is gone.                                                  *)
UploadRemove(c) ==
  /\ request[c].stage = "remove"
  /\ IF Exists(request[c].file_path)
     THEN /\ upload_folder' = Removed(request[c].file_path)
          /\ Answer(c, 200, "")
     ELSE /\ MoveTo(c, "except")
          /\ UNCHANGED upload_folder
  /\ UNCHANGED << parsing, now, resumes >>

(* The handler answering without the clean-up of lines 751-752. *)
UploadExceptKeepingFile(c) ==
  /\ request[c].stage = "except"
  /\ Answer(c, 500, "Error parsing resume")
  /\ UNCHANGED << parsing, now, upload_folder, resumes >>

(* lines 750-751: `except Exception` and the test os.path.exists(file_path) *)
UploadExcept(c) ==
  /\ request[c].stage = "except"
  /\ IF Exists(request[c].file_path)
     THEN MoveTo(c, "except_remove")
     ELSE Answer(c, 500, "Error parsing resume")
  /\ UNCHANGED << parsing, now, upload_folder, resumes >>

(* lines 752-756: os.remove(file_path) in the handler; when it raises     *)
(* the outer `except Exception` answers.                                   *)
UploadExceptRemove(c) ==
  /\ request[c].stage = "except_remove"
  /\ IF Exists(request[c].file_path)
     THEN /\ upload_folder' = Removed(request[c].file_path)
          /\ Answer(c, 500, "Error parsing resume")
     ELSE /\ UNCHANGED upload_folder
          /\ Answer(c, 500, "Upload error")
  /\ UNCHANGED << parsing, now, resumes >>

(* The steps of upload_resume after its first. *)
UploadStep(c) ==
  \/ UploadSave(c)
  \/ UploadParse(c)
  \/ UploadCommit(c)
  \/ UploadCommitRaises(c)
  \/ UploadRemove(c)
  \/ UploadExcept(c)
  \/ UploadExceptRemove(c)

(* lines 889-899: get_resumes; @login_required sends a caller without a   *)
(* login to the login page.  The body is the set of the rows returned     *)
(* (their order is left out).                                              *)
GetResumes(c, user) ==
  /\ ~Serving(c)
  /\ IF user = Anonymous
     THEN Respond(c, "get_resumes", user, 0, 302, {})
     ELSE Respond(c, "get_resumes", user, 0, 200,
                  { row \in resumes : row.user_id = user })
  /\ UNCHANGED << parsing, now, upload_folder, resumes >>

(* The query without the owner (`filter_by(id=resume_id)`). *)
DeleteResumeOfAnyOwner(c, user, resume_id) ==
  /\ ~Serving(c)
  /\ IF user = Anonymous
     THEN /\ Respond(c, "delete_resume", user, resume_id, 302, {})
          /\ UNCHANGED resumes
     ELSE LET found == { row \in resumes : row.id = resume_id }
          IN  IF found = {}
              THEN /\ Respond(c, "delete_resume", user, resume_id, 404, "Resume not found")
                   /\ UNCHANGED resumes
              ELSE /\ resumes' = resumes \ found
                   /\ Respond(c, "delete_resume", user, resume_id, 200,
                              "Resume deleted successfully")
  /\ UNCHANGED << parsing, now, upload_folder >>

(* lines 902-915: delete_resume *)
DeleteResume(c, user, resume_id) ==
  /\ ~Serving(c)
  /\ IF user = Anonymous
     THEN /\ Respond(c, "delete_resume", user, resume_id, 302, {})
          /\ UNCHANGED resumes
     ELSE LET found == { row \in resumes : row.id = resume_id /\ row.user_id = user }
          IN  IF found = {}
              THEN /\ Respond(c, "delete_resume", user, resume_id, 404, "Resume not found")
                   /\ UNCHANGED resumes
              ELSE /\ resumes' = resumes \ found
                   /\ Respond(c, "delete_resume", user, resume_id, 200,
                              "Resume deleted successfully")
  /\ UNCHANGED << parsing, now, upload_folder >>

(* A second passes. *)
Tick ==
  /\ now < MaxTime
  /\ now' = now + 1
  /\ UNCHANGED << parsing, upload_folder, resumes, request >>

(* The server with no parse call of its own under way. *)
InitServer ==
  /\ InitTaxonomy
  /\ InitWeb
  /\ hash_seed = [ c \in Callers |-> 1 ]
  /\ pc = [ c \in Callers |-> "idle" ]
  /\ call = [ c \in Callers |-> NoCall ]
  /\ local = [ c \in Callers |-> NoLocals ]
  /\ result = [ c \in Callers |-> NoResult ]

(* Uploads without a login served by all the callers at once. *)
NextUpload ==
  \/ Tick
  \/ \E c \in Callers : UploadResume(c, Anonymous) \/ UploadStep(c)

SpecUpload == InitServer /\ [][NextUpload]_vars

(* Requests of the users and of callers without a login, served one after *)
(* the other by caller 1.                                                  *)
NextResumes ==
  \/ UploadStep(1)
  \/ \E user \in { Anonymous } \cup Users :
       \/ UploadResume(1, user)
       \/ GetResumes(1, user)
       \/ \E resume_id \in 1..MaxResumes : DeleteResume(1, user, resume_id)

SpecResumes == InitServer /\ [][NextResumes]_vars

----------------------------------------------------------------------------
(* Properties of get_job_recommendations and calculate_match_score,      *)
(* checked under SpecRecommend.                                           *)

RecommendReturned(c) ==
  call[c].op = "get_job_recommendations" /\ result[c].kind = "return"

(* The position of the field called name in the job_fields taxonomy. *)
FieldIndex(name) == CHOOSE i \in 1..Len(JobFields) : JobFields[i].name = name

(* The bonus condition of lines 330-332 for field i. *)
BonusApplies(c, i) ==
  /\ call[c].experience_text # ""
  /\ Contains(lower(call[c].experience_text), lower(JobFields[i].name))

(* Two lists hold the same strings when compared case-insensitively. *)
SameIgnoringCase(xs, ys) == Range(LowerAll(xs)) = Range(LowerAll(ys))

(* C1: for every field and any input skill list, keyword list and        *)
(* experience text, the match_percentage returned by                      *)
(* get_job_recommendations is an integer between 0 and 100 inclusive.     *)
C1_MatchPercentageInRange ==
  \A c \in Callers : RecommendReturned(c) =>
    \A i \in 1..Len(result[c].value) : result[c].value[i].match_percentage \in 0..100

(* C1 witness: a field scored above 90 before the bonus, the bonus        *)
(* applied, and the returned percentage is the cap.                       *)
C1_Witness ==
  \E c \in Callers : RecommendReturned(c) /\
    \E i \in 1..Len(JobFields) :
      /\ local[c].match_scores[i] > 90
      /\ BonusApplies(c, i)
      /\ \E k \in 1..Len(result[c].value) :
           /\ result[c].value[k].field = JobFields[i].name
           /\ result[c].value[k].match_percentage = 100

(* C2: the returned list is sorted by match_percentage in descending      *)
(* order, and two fields with equal match_percentage appear in their      *)
(* taxonomy order.                                                         *)
C2_SortedDescendingStable ==
  \A c \in Callers : RecommendReturned(c) =>
    LET v == result[c].value
    IN  \A i, j \in 1..Len(v) : i < j =>
          \/ v[i].match_percentage > v[j].match_percentage
          \/ /\ v[i].match_percentage = v[j].match_percentage
             /\ FieldIndex(v[i].field) < FieldIndex(v[j].field)

(* C2 witness: a returned list that the sort reordered and that holds a   *)
(* tie.                                                                    *)
C2_Witness ==
  \E c \in Callers : RecommendReturned(c) /\
    LET v == result[c].value
    IN  /\ \E i \in 1..(Len(v) - 1) : v[i].match_percentage = v[i + 1].match_percentage
        /\ \E i, j \in 1..Len(v) : i < j /\ FieldIndex(v[i].field) > FieldIndex(v[j].field)

(* C3: the returned list holds each of the ten taxonomy field names       *)
(* exactly once, whatever the scores, a score of 0 included.              *)
C3_OneEntryPerField ==
  \A c \in Callers : RecommendReturned(c) =>
    LET v == result[c].value
    IN  /\ Len(JobFields) = 10
        /\ Len(v) = Len(JobFields)
        /\ \A k \in 1..Len(JobFields) :
             Cardinality({ i \in 1..Len(v) : v[i].field = JobFields[k].name }) = 1

(* C3 witness: a returned list in which some field has a score of 0 and   *)
(* some field a positive one.                                              *)
C3_Witness ==
  \E c \in Callers : RecommendReturned(c) /\
    LET v == result[c].value
    IN  /\ \E i \in 1..Len(v) : v[i].match_percentage = 0
        /\ \E i \in 1..Len(v) : v[i].match_percentage > 0

(* C4: for every field, when the candidate's skills and keyword words     *)
(* equal the field's lists case-insensitively, calculate_match_score      *)
(* returns exactly 100 for that field.                                     *)
C4_FullMatchScores100 ==
  \A c \in Callers : RecommendReturned(c) =>
    \A i \in 1..Len(JobFields) :
      ( /\ SameIgnoringCase(call[c].skills, JobFields[i].skills)
        /\ SameIgnoringCase(KeywordWords(call[c].keywords), JobFields[i].keywords) )
      => local[c].match_scores[i] = 100

(* C4 witness: a call whose lists are those of a field in another letter  *)
(* case.                                                                   *)
C4_Witness ==
  \E c \in Callers : RecommendReturned(c) /\
    \E i \in 1..Len(JobFields) :
      /\ SameIgnoringCase(call[c].skills, JobFields[i].skills)
      /\ SameIgnoringCase(KeywordWords(call[c].keywords), JobFields[i].keywords)
      /\ call[c].skills # JobFields[i].skills
      /\ local[c].match_scores[i] = 100

(* C5: with an empty skill list and an empty keyword list,                *)
(* calculate_match_score returns exactly 0 for every field.               *)
C5_EmptyInputScores0 ==
  \A c \in Callers : RecommendReturned(c) =>
    ( (call[c].skills = << >> /\ call[c].keywords = << >>)
      => \A i \in 1..Len(JobFields) : local[c].match_scores[i] = 0 )

(* C5 witness: a returned call with both lists empty and ten scores. *)
C5_Witness ==
  \E c \in Callers :
    /\ RecommendReturned(c)
    /\ call[c].skills = << >> /\ call[c].keywords = << >>
    /\ Len(local[c].match_scores) = 10
    /\ local[c].match_scores[1] = 0

----------------------------------------------------------------------------
(* Properties of parse_resume, checked under Spec, FairSpec and SpecFault. *)

(* The call of caller c is a parse_resume of a file whose extension        *)
(* parse_resume reads.                                                      *)
ReadsText(c) == file_extension(call[c].filename) \in SupportedExtensions

Blank(text) == strip(text) = ""

(* Caller c is past the check of lines 562-563. *)
PastCheck(c) == ~(pc[c] \in { "idle", "parse_resume", "check_text" })

(* parse_resume has returned its record to caller c. *)
Parsed(c) == pc[c] \in { "parsed", "get_job_recommendations", "returned" }

EmptyDocumentError == Raised("ValueError: Could not extract text from file")

(* C6: when the document text is empty or only whitespace, parse_resume   *)
(* fails with the empty-document error before any extractor runs and      *)
(* returns no record, not even a partial or empty one.                    *)
C6_BlankTextRaises ==
  \A c \in Callers : (ReadsText(c) /\ Blank(call[c].text) /\ PastCheck(c)) =>
    /\ pc[c] = "raised"
    /\ result[c] = EmptyDocumentError
    /\ local[c].ran = << >>
    /\ local[c].parsed_data = << >>

(* C6 witness: a text of whitespace characters only was refused. *)
C6_Witness ==
  \E c \in Callers :
    /\ ReadsText(c) /\ call[c].text # "" /\ Blank(call[c].text)
    /\ pc[c] = "raised"
    /\ result[c] = EmptyDocumentError
    /\ local[c].ran = << >>

(* C7: for every non-blank document text parse_resume terminates and      *)
(* returns a record whose experience list has at most 5 entries, whose    *)
(* education list at most 3 and whose keyword list at most 20.            *)
C7_TerminatesWithinCaps ==
  /\ [](\A c \in Callers : Parsed(c) =>
          /\ Len(local[c].parsed_data.experience) <= 5
          /\ Len(local[c].parsed_data.education) <= 3
          /\ Len(local[c].parsed_data.keywords) <= 20)
  /\ \A c \in Callers :
       (pc[c] = "check_text" /\ ~Blank(local[c].text))
         ~> (Parsed(c) /\ local[c].ran = ExtractorSteps)

(* C7 witness: a record returned for a text with more than 5 experience   *)
(* entries, more than 3 education entries and more than 20 distinct       *)
(* keywords, each list cut at its cap.                                     *)
C7_Witness ==
  \E c \in Callers :
    /\ pc[c] = "parsed"
    /\ Len(experience_entries(call[c].text)) > 5
    /\ Len(education_entries(call[c].text)) > 3
    /\ Len(Counter(relevant_words(job_keywords, all_skills,
                                   find_words(lower(call[c].text))))) > 20
    /\ Len(local[c].parsed_data.experience) = 5
    /\ Len(local[c].parsed_data.education) = 3
    /\ Len(local[c].parsed_data.keywords) = 20

(* The default of the sub-result of an extractor step. *)
SubResult(c, step) ==
  CASE step = "extract_contact_info" -> local[c].parsed_data.contact_info
    [] step = "extract_skills" -> local[c].parsed_data.skills
    [] step = "extract_experience" -> local[c].parsed_data.experience
    [] step = "extract_education" -> local[c].parsed_data.education
    [] step = "extract_keywords" -> local[c].parsed_data.keywords

----------------------------------------------------------------------------
(* Properties of concurrent calls, checked under SpecConcurrent. *)

(* The record parse_resume returns for text when it runs alone on the     *)
(* taxonomies the constructor built.                                       *)
ParsedAlone(text, seed) ==
  parsed_record(extract_contact_info(text), extract_skills(AllSkills, seed, text),
                extract_experience(text), extract_education(text),
                extract_keywords(JobKeywords, AllSkills, text), text)

(* The list get_job_recommendations returns for the arguments of a call  *)
(* when it runs alone on the taxonomy the constructor built.              *)
RecommendedAlone(args) ==
  get_job_recommendations(JobFields, args.skills, args.keywords, args.experience_text)

(* C9: the extractors and get_job_recommendations never modify the        *)
(* process-wide taxonomies and keep no state between calls: under any     *)
(* interleaving of concurrent calls, parse_resume returns the record and  *)
(* get_job_recommendations the list it returns for its arguments when     *)
(* run alone, and calls with the same input return the same result.       *)
C9_ConcurrentCallsIndependent ==
  /\ job_fields = JobFields
  /\ skills_database = SkillsDatabase
  /\ job_keywords = JobKeywords
  /\ all_skills = AllSkills
  /\ \A c \in Callers :
       /\ pc[c] = "parsed" =>
            /\ local[c].parsed_data = ParsedAlone(call[c].text, hash_seed[c])
            /\ result[c] = Returned(local[c].parsed_data)
       /\ pc[c] = "returned" => result[c] = Returned(RecommendedAlone(call[c]))
  /\ \A c, d \in Callers :
       ( /\ call[c].text = call[d].text /\ hash_seed[c] = hash_seed[d]
         /\ pc[c] = "returned" /\ pc[d] = "returned" )
       => (local[c].parsed_data = local[d].parsed_data /\ result[c] = result[d])

(* C9 witness: a caller has returned the result it returns alone while    *)
(* another caller, parsing the same text, is in the middle of its         *)
(* extractors.                                                             *)
C9_Witness ==
  \E c, d \in Callers :
    /\ c # d
    /\ call[c].text = call[d].text
    /\ pc[c] = "returned"
    /\ local[c].parsed_data = ParsedAlone(call[c].text, hash_seed[c])
    /\ result[c] = Returned(RecommendedAlone(call[c]))
    /\ local[c].parsed_data.skills # << >>
    /\ IsIn(pc[d], ExtractorSteps) /\ local[d].ran # << >>

(* Caller c has run extract_skills. *)
SkillsExtracted(c) == IsIn("extract_skills", local[c].ran)

(* C10: extract_skills is deterministic as a set: two runs on identical   *)
(* text yield the identical set of skills, whatever the order in which    *)
(* the matches are collected and listed.                                   *)
C10_SkillsSameSet ==
  \A c, d \in Callers :
    (SkillsExtracted(c) /\ SkillsExtracted(d) /\ call[c].text = call[d].text)
    => /\ Range(local[c].skills) = Range(local[d].skills)
       /\ Len(local[c].skills) = Cardinality(Range(local[c].skills))

(* C10 witness: two runs on the same text that list the same skills in    *)
(* different orders.                                                       *)
C10_Witness ==
  \E c, d \in Callers :
    /\ SkillsExtracted(c) /\ SkillsExtracted(d)
    /\ call[c].text = call[d].text
    /\ local[c].skills # local[d].skills
    /\ Cardinality(Range(local[c].skills)) >= 2
    /\ Range(local[c].skills) = Range(local[d].skills)

----------------------------------------------------------------------------
(* Properties of the extractors on given texts, checked under Spec. *)

(* Caller c has run the extractor step. *)
HasRun(c, step) == IsIn(step, local[c].ran)

(* The extractor step has just returned to caller c. *)
JustRan(c, step) == local[c].ran # << >> /\ local[c].ran[Len(local[c].ran)] = step

(* C11: every element returned by extract_skills is a canonical skill     *)
(* string of the taxonomy in its stored display case, and no skill string *)
(* appears twice in the result, even for a skill listed in two taxonomy   *)
(* categories (Firebase).                                                  *)
C11_SkillsCanonicalAndDistinct ==
  \A c \in Callers : HasRun(c, "extract_skills") =>
    LET skills == local[c].skills
    IN  /\ \A i \in 1..Len(skills) :
             \E k \in DOMAIN SkillsDatabase :
               \E j \in 1..Len(SkillsDatabase[k].skills) :
                 SkillsDatabase[k].skills[j] = skills[i]
        /\ \A i, j \in 1..Len(skills) : i # j => skills[i] # skills[j]

(* C11 witness: the text names Firebase in other letter cases, Firebase   *)
(* is collected once per category and returned once, as stored.           *)
C11_Witness ==
  \E c \in Callers :
    /\ HasRun(c, "extract_skills")
    /\ ~Contains(call[c].text, "Firebase")
    /\ Count(found_skills(all_skills, call[c].text), "Firebase") = 2
    /\ Count(local[c].skills, "Firebase") = 1

ExpectedWorkHistoryEntry == "Software Engineer at Acme Inc 2019-2021 Built backend services"

(* C12: extract_experience on the five-line text "Work History / Software *)
(* Engineer at Acme Inc 2019-2021 / Built backend services / Education /  *)
(* BS Computer Science" returns exactly one entry, the second and third   *)
(* lines joined by a space; the scan stops at the Education line and the  *)
(* last line is in no entry.                                               *)
C12_WorkHistoryScenario ==
  \A c \in Callers :
    (HasRun(c, "extract_experience") /\ call[c].text = WorkHistoryText)
    => local[c].experience = << ExpectedWorkHistoryEntry >>

(* C12 witness: the scenario text has five lines and its record was       *)
(* returned with the one entry.                                            *)
C12_Witness ==
  \E c \in Callers :
    /\ call[c].text = WorkHistoryText
    /\ Len(split_lines(call[c].text)) = 5
    /\ pc[c] = "parsed"
    /\ local[c].parsed_data.experience = << ExpectedWorkHistoryEntry >>

(* C13 as stated: extract_contact_info on the text "Contact:              *)
(* jane@example.com, (415) 555-1234. linkedin.com/in/janedoe" returns     *)
(* email "jane@example.com", phone exactly "(415) 555-1234" and linkedin  *)
(* "linkedin.com/in/janedoe".                                              *)
C13_ContactScenario ==
  \A c \in Callers :
    (HasRun(c, "extract_contact_info") /\ call[c].text = ContactText)
    => /\ { "email", "phone", "linkedin" } \subseteq DOMAIN local[c].contact_info
       /\ local[c].contact_info["email"] = "jane@example.com"
       /\ local[c].contact_info["phone"] = "(415) 555-1234"
       /\ local[c].contact_info["linkedin"] = "linkedin.com/in/janedoe"

----------------------------------------------------------------------------
(* Properties of the scores, checked under SpecRecommend and SpecScore. *)

SoftwareEngineer == FieldIndex("Software Engineer")

(* The candidate of the scenario: skill set {Python, Docker}, and         *)
(* "developer" the only Software Engineer keyword among the keywords.     *)
PythonDockerDeveloper(c) ==
  LET words == Range(LowerAll(KeywordWords(call[c].keywords)))
  IN  /\ RecommendReturned(c)
      /\ Range(LowerAll(call[c].skills)) = { "python", "docker" }
      /\ words \cap Range(LowerAll(job_fields[SoftwareEngineer].keywords)) = { "developer" }

(* C14 as stated: the Software Engineer field has 21 skills and 11        *)
(* keywords, and for a candidate with skill set {Python, Docker} whose    *)
(* keywords contain "developer" and no other Software Engineer keyword    *)
(* its score before any experience bonus is 9.                            *)
C14_SoftwareEngineer21Skills ==
  \A c \in Callers : PythonDockerDeveloper(c) =>
    /\ Len(job_fields[SoftwareEngineer].skills) = 21
    /\ Len(job_fields[SoftwareEngineer].keywords) = 11
    /\ local[c].match_scores[SoftwareEngineer] = 9

(* C14 amended: the Software Engineer field has 22 skills and 11          *)
(* keywords, and for that candidate its score before any experience       *)
(* bonus is 9.                                                             *)
C14_SoftwareEngineer22Skills ==
  \A c \in Callers : PythonDockerDeveloper(c) =>
    /\ Len(job_fields[SoftwareEngineer].skills) = 22
    /\ Len(job_fields[SoftwareEngineer].keywords) = 11
    /\ local[c].match_scores[SoftwareEngineer] = 9

(* C14 witness: the scenario's candidate with a second keyword that is    *)
(* not a Software Engineer keyword, scored 9 and raised to 19 by the      *)
(* bonus.                                                                  *)
C14_Witness ==
  \E c \in Callers :
    /\ PythonDockerDeveloper(c)
    /\ Len(call[c].keywords) = 2
    /\ local[c].match_scores[SoftwareEngineer] = 9
    /\ \E k \in 1..Len(result[c].value) :
         /\ result[c].value[k].field = "Software Engineer"
         /\ result[c].value[k].match_percentage = 19

(* calculate_match_score has returned to caller c. *)
ScoreReturned(c) == call[c].op = "calculate_match_score" /\ pc[c] = "returned"

(* The number of strings of the field list xs that the candidate's list   *)
(* ys holds, compared case-insensitively.                                  *)
Matched(xs, ys) ==
  Cardinality({ i \in 1..Len(xs) : \E j \in 1..Len(ys) : lower(xs[i]) = lower(ys[j]) })

(* C15: for a field with n > 0 skills and m > 0 keywords of which a       *)
(* skills and b keywords are matched case-insensitively,                   *)
(* calculate_match_score returns round(60*a/n + 40*b/m); when one of the  *)
(* field's lists is empty that half adds nothing to numerator or          *)
(* denominator, and when both are empty the score is 0 and nothing is     *)
(* divided by zero.                                                        *)
C15_ScoreFormula ==
  \A c \in Callers : ScoreReturned(c) =>
    LET n == Len(call[c].job_field_data.skills)
        m == Len(call[c].job_field_data.keywords)
        a == Matched(call[c].job_field_data.skills, call[c].skills)
        b == Matched(call[c].job_field_data.keywords, KeywordWords(call[c].keywords))
    IN  /\ result[c].kind = "return"
        /\ result[c].value =
             CASE n > 0 /\ m > 0 -> round(60 * a * m + 40 * b * n, n * m)
               [] n > 0 /\ m = 0 -> round(60 * a * 100, 60 * n)
               [] n = 0 /\ m > 0 -> round(40 * b * 100, 40 * m)
               [] n = 0 /\ m = 0 -> 0

(* C15 witness: a field with three skills and two keywords of which one   *)
(* skill and one keyword are matched in another letter case, scored       *)
(* round(20 + 20) = 40.                                                    *)
C15_Witness ==
  \E c \in Callers :
    /\ ScoreReturned(c)
    /\ Len(call[c].job_field_data.skills) = 3
    /\ Len(call[c].job_field_data.keywords) = 2
    /\ Matched(call[c].job_field_data.skills, call[c].skills) = 1
    /\ Matched(call[c].job_field_data.keywords, KeywordWords(call[c].keywords)) = 1
    /\ ~IsIn("python", call[c].job_field_data.skills) /\ IsIn("python", call[c].skills)
    /\ result[c].value = 40

(* The match_percentage of the entry of field i in the list returned to   *)
(* caller c.                                                               *)
MatchPercentage(c, i) ==
  LET v == result[c].value
      k == CHOOSE k \in 1..Len(v) : v[k].field = JobFields[i].name
  IN  v[k].match_percentage

(* C16: a field's match_percentage is its pre-bonus score plus 10, capped *)
(* at 100, exactly when the experience text is non-empty and contains the *)
(* field name as a case-insensitive substring; in every other case it is  *)
(* the pre-bonus score.                                                    *)
C16_ExperienceBonus ==
  \A c \in Callers : RecommendReturned(c) =>
    \A i \in 1..Len(JobFields) :
      MatchPercentage(c, i) =
        IF BonusApplies(c, i)
        THEN Min(local[c].match_scores[i] + 10, 100)
        ELSE local[c].match_scores[i]

(* C16 witness: one call in which a field named in the experience text in *)
(* another letter case got the 10 points and a field not named in it kept *)
(* its positive score.                                                     *)
C16_Witness ==
  \E c \in Callers : RecommendReturned(c) /\
    \E i, j \in 1..Len(JobFields) :
      /\ BonusApplies(c, i)
      /\ ~Contains(call[c].experience_text, JobFields[i].name)
      /\ MatchPercentage(c, i) = local[c].match_scores[i] + 10
      /\ ~BonusApplies(c, j)
      /\ local[c].match_scores[j] > 0
      /\ MatchPercentage(c, j) = local[c].match_scores[j]

----------------------------------------------------------------------------
(* Properties of extract_experience, checked under Spec. *)

(* The positions of the header lines among the non-blank lines L. *)
ExperienceHeaderLines(L) == { i \in 1..Len(L) : SearchAnyWord(L[i], ExperienceHeaders) }

(* The position of the first stop line after the first header, Len(L) + 1 *)
(* when there is none.                                                     *)
ExperienceStopLine(L) ==
  LET H == ExperienceHeaderLines(L)
  IN  SetMin({ i \in 1..Len(L) : /\ i > SetMin(H)
                                 /\ i \notin H
                                 /\ SearchAnyWord(L[i], ExperienceStops) }
               \cup { Len(L) + 1 })

(* The lines of the experience section of text: the non-blank lines after *)
(* the first header line and before the first later stop line, header     *)
(* lines left out; empty when the text has no header line.                 *)
ExperienceSection(text) ==
  LET L == stripped_lines(text)
      H == ExperienceHeaderLines(L)
      InSection(i) == i > SetMin(H) /\ i < ExperienceStopLine(L) /\ i \notin H
      S == IF H = {} THEN {} ELSE { i \in 1..Len(L) : InSection(i) }
  IN  [ k \in 1..Cardinality(S) |-> L[Nth(S, k)] ]

(* C17: extract_experience builds entries only from lines after the first *)
(* header line and before the first later stop line: nothing before the   *)
(* header, nothing from the stop line on (a later header included), and   *)
(* with no header line the result is the empty list and nothing is raised. *)
C17_OnlySectionLines ==
  \A c \in Callers : JustRan(c, "extract_experience") =>
    LET S == ExperienceSection(call[c].text)
    IN  /\ \A k \in 1..Len(local[c].experience) :
             \E i \in 1..Len(S) : \E j \in i..Len(S) :
               local[c].experience[k] = join_space(SubSeq(S, i, j))
        /\ ExperienceHeaderLines(stripped_lines(call[c].text)) = {}
             => (local[c].experience = << >> /\ result[c].kind # "raise")

(* C17 witness: a text with a year line before its first header and a     *)
(* second header with a year line after its stop line; fewer than 5       *)
(* entries were returned, so the slice hides nothing.                      *)
C17_Witness ==
  \E c \in Callers :
    LET L == stripped_lines(call[c].text)
        H == ExperienceHeaderLines(L)
    IN  /\ HasRun(c, "extract_experience")
        /\ H # {}
        /\ \E i \in 1..Len(L) : i < SetMin(H) /\ IsEntryBoundary(L[i])
        /\ \E h \in H : h > ExperienceStopLine(L) /\ h < Len(L) /\ IsEntryBoundary(L[h + 1])
        /\ local[c].experience # << >>
        /\ Len(local[c].experience) < MaxExperience

(* The entries of the section lines S: one per boundary line, made of the *)
(* boundary line and the lines up to the next boundary line, joined by    *)
(* single spaces.                                                          *)
SectionEntries(S) ==
  LET B == { i \in 1..Len(S) : IsEntryBoundary(S[i]) }
      Last(b) == SetMin({ i \in B : i > b } \cup { Len(S) + 1 }) - 1
  IN  [ k \in 1..Cardinality(B) |-> join_space(SubSeq(S, Nth(B, k), Last(Nth(B, k)))) ]

(* C18: inside the section every boundary line (4-digit year or company   *)
(* suffix) starts a new entry and completes the one before, the following *)
(* non-boundary lines are appended to the current entry, the entry in     *)
(* progress at the end of the scan is the last entry, the lines of an     *)
(* entry are joined by single spaces, and the first 5 entries are         *)
(* returned in document order.                                             *)
C18_EntriesByBoundary ==
  \A c \in Callers : JustRan(c, "extract_experience") =>
    LET entries == SectionEntries(ExperienceSection(call[c].text))
    IN  local[c].experience = SubSeq(entries, 1, Min(5, Len(entries)))

(* C18 witness: a section of six entries that ends at a stop line, with a *)
(* line before its first boundary line and an entry of two lines; five    *)
(* entries were returned.                                                  *)
C18_Witness ==
  \E c \in Callers :
    LET L == stripped_lines(call[c].text)
        S == ExperienceSection(call[c].text)
    IN  /\ HasRun(c, "extract_experience")
        /\ Len(SectionEntries(S)) = 6
        /\ ExperienceStopLine(L) <= Len(L)
        /\ ~IsEntryBoundary(S[1])
        /\ \E i \in 2..Len(S) : ~IsEntryBoundary(S[i])
        /\ Len(local[c].experience) = 5
        /\ local[c].experience[1] = join_space(SubSeq(S, 2, 3))

----------------------------------------------------------------------------
(* Properties of extract_education and extract_keywords, checked under    *)
(* Spec.                                                                    *)

EducationHeaderLines(L) == { i \in 1..Len(L) : SearchAnyWord(L[i], EducationHeaders) }

(* The education flag is on when line i is read: a header line precedes   *)
(* it.                                                                      *)
EducationFlagOn(L, i) == \E h \in EducationHeaderLines(L) : h < i

(* The position of the line that ends the scan, Len(L) + 1 when none does. *)
EducationStopLine(L) ==
  SetMin({ i \in 1..Len(L) : /\ EducationFlagOn(L, i)
                             /\ i \notin EducationHeaderLines(L)
                             /\ SearchAnyWord(L[i], EducationStops) }
           \cup { Len(L) + 1 })

(* The positions of the lines that qualify as entries. *)
EducationQualifying(L) ==
  { i \in 1..Len(L) :
      /\ i < EducationStopLine(L)
      /\ i \notin EducationHeaderLines(L)
      /\ EducationFlagOn(L, i) \/ MatchesDegree(L[i])
      /\ HasEduKeyword(L[i]) \/ MatchesDegree(L[i]) }

(* C19: extract_education appends a non-blank, non-header line as its own *)
(* entry if and only if (the flag is on or the line matches a degree      *)
(* pattern) and (the line holds an institution keyword or matches a       *)
(* degree pattern); while the flag is on the first line matching          *)
(* experience / skills / certifications / projects ends the scan; entries *)
(* are never joined and the first 3 in document order are returned.       *)
C19_EducationEntries ==
  \A c \in Callers : JustRan(c, "extract_education") =>
    LET L == stripped_lines(call[c].text)
        Q == EducationQualifying(L)
    IN  local[c].education = [ k \in 1..Min(3, Cardinality(Q)) |-> L[Nth(Q, k)] ]

(* C19 witness: a degree line before the header is an entry, an           *)
(* institution line before the header is not, a line of the section with  *)
(* neither keyword nor degree is not, a fourth qualifying line is         *)
(* dropped and a stop line ends the scan before an institution line.      *)
C19_Witness ==
  \E c \in Callers :
    LET L == stripped_lines(call[c].text)
        Q == EducationQualifying(L)
        first == SetMin(EducationHeaderLines(L))
    IN  /\ HasRun(c, "extract_education")
        /\ EducationHeaderLines(L) # {}
        /\ \E i \in Q : i < first
        /\ \E i \in 1..(first - 1) : HasEduKeyword(L[i]) /\ i \notin Q
        /\ \E i \in (first + 1)..(EducationStopLine(L) - 1) : i \notin Q
        /\ Cardinality(Q) > 3
        /\ \E i \in (EducationStopLine(L) + 1)..Len(L) : HasEduKeyword(L[i])
        /\ Len(local[c].education) = 3

(* The lowercase alphabetic tokens of text, in order. *)
Tokens(text) == find_words(lower(text))

(* The lowercase forms of the skill names. *)
SkillWords == Range(LowerAll(AllSkills))

(* The tokens of text that are counted: in the role-keyword vocabulary    *)
(* and longer than 3 characters, or the lowercase form of a skill name.   *)
CountedTokens(text) ==
  LET skills_lower == SkillWords
      vocabulary == Range(JobKeywords)
  IN  { w \in Range(Tokens(text)) : (w \in vocabulary /\ Len(w) > 3) \/ w \in skills_lower }

(* C20: extract_keywords counts a lowercase alphabetic token if and only  *)
(* if it is in the role-keyword vocabulary and longer than 3 characters,  *)
(* or it is the lowercase form of a canonical skill name; the count       *)
(* reported for a word is the number of its occurrences in the token      *)
(* stream, and every reported word is the title-cased form of a counted   *)
(* token.                                                                   *)
C20_KeywordCounts ==
  \A c \in Callers : JustRan(c, "extract_keywords") =>
    LET tokens == Tokens(call[c].text)
        counted == CountedTokens(call[c].text)
        keywords == local[c].keywords
    IN  /\ \A k \in 1..Len(keywords) :
             \E w \in counted :
               /\ keywords[k].word = title(w)
               /\ keywords[k].count = Count(tokens, w)
        /\ Len(keywords) = Min(20, Cardinality(counted))
        /\ \A j, k \in 1..Len(keywords) : j # k => keywords[j].word # keywords[k].word

(* C20 witness: a text with a counted vocabulary word, a counted skill of *)
(* at most 3 letters, a word counted more than once and a token that is   *)
(* not counted.                                                             *)
C20_Witness ==
  \E c \in Callers :
    LET tokens == Tokens(call[c].text)
        keywords == local[c].keywords
    IN  /\ HasRun(c, "extract_keywords")
        /\ Range(tokens) # CountedTokens(call[c].text)
        /\ \E k \in 1..Len(keywords) : IsIn(lower(keywords[k].word), JobKeywords)
        /\ \E k \in 1..Len(keywords) : Len(keywords[k].word) <= 3
        /\ \E k \in 1..Len(keywords) : keywords[k].count >= 2
        /\ Len(keywords) < 20

(* The position of the first occurrence of w in the token stream. *)
FirstOccurrence(tokens, w) == SetMin({ i \in 1..Len(tokens) : tokens[i] = w })

(* v is ranked before w: counted more often, or as often and seen first. *)
RankedBefore(tokens, v, w) ==
  \/ Count(tokens, v) > Count(tokens, w)
  \/ /\ Count(tokens, v) = Count(tokens, w)
     /\ FirstOccurrence(tokens, v) < FirstOccurrence(tokens, w)

(* C21: extract_keywords returns the 20 counted words with the highest    *)
(* counts (all of them when fewer than 21 are counted), ordered by count  *)
(* descending; among words with equal counts the one whose first          *)
(* occurrence in the token stream is earlier comes first, and is the one  *)
(* kept when the cut at 20 falls inside a tie.                            *)
C21_TopTwentyByCount ==
  \A c \in Callers : JustRan(c, "extract_keywords") =>
    LET tokens == Tokens(call[c].text)
        counted == CountedTokens(call[c].text)
        words == [ k \in 1..Len(local[c].keywords) |-> lower(local[c].keywords[k].word) ]
    IN  /\ Len(words) = Min(20, Cardinality(counted))
        /\ Range(words) \subseteq counted
        /\ \A j, k \in 1..Len(words) : j < k => RankedBefore(tokens, words[j], words[k])
        /\ \A w \in counted \ Range(words) :
             \A k \in 1..Len(words) : RankedBefore(tokens, words[k], w)

(* C21 witness: more than 20 words are counted, a dropped word has the    *)
(* count of a kept word, and a kept word counted more often than another  *)
(* kept word occurs first after it.                                        *)
C21_Witness ==
  \E c \in Callers :
    LET tokens == Tokens(call[c].text)
        counted == CountedTokens(call[c].text)
        words == [ k \in 1..Len(local[c].keywords) |-> lower(local[c].keywords[k].word) ]
    IN  /\ HasRun(c, "extract_keywords")
        /\ Cardinality(counted) > 20
        /\ Len(words) = 20
        /\ \E w \in counted \ Range(words) : Count(tokens, w) = Count(tokens, words[20])
        /\ \E j, k \in 1..20 :
             /\ j < k
             /\ Count(tokens, words[j]) > Count(tokens, words[k])
             /\ FirstOccurrence(tokens, words[j]) > FirstOccurrence(tokens, words[k])

----------------------------------------------------------------------------
(* Properties of extract_contact_info and extract_skills, checked under   *)
(* Spec.                                                                    *)

(* The line qualifies as a name. *)
NameQualifies(line) ==
  /\ \A h \in { "objective", "summary", "experience", "education" } :
       ~Contains(lower(line), h)
  /\ ~Contains(line, "@")
  /\ ~\E i \in 1..(Len(line) - 2) : \A k \in i..(i + 2) : Char(line, k) \in DigitSet
  /\ TokenCount(line) <= 4
  /\ Len(line) < 50
  /\ Char(line, 1) \in UpperSet

(* The positions of the qualifying lines among the first 5 non-blank      *)
(* lines of text.                                                          *)
NameCandidates(text) ==
  LET L == stripped_lines(text)
  IN  { i \in 1..Min(5, Len(L)) : NameQualifies(L[i]) }

(* C22: extract_contact_info sets name to the first of the first 5        *)
(* non-blank lines of the original text that contains no section-header   *)
(* word, no '@' and no run of 3 digits, has at most 4 tokens, is shorter   *)
(* than 50 characters and starts with an uppercase letter; when none of   *)
(* those lines qualifies the name is absent, whatever the later lines are. *)
C22_NameFromFirstFiveLines ==
  \A c \in Callers : JustRan(c, "extract_contact_info") =>
    LET L == stripped_lines(call[c].text)
        Q == NameCandidates(call[c].text)
        info == local[c].contact_info
    IN  IF Q = {}
        THEN "name" \notin DOMAIN info
        ELSE "name" \in DOMAIN info /\ info["name"] = L[SetMin(Q)]

(* C22 witness: among the first 5 non-blank lines one has a header word   *)
(* in upper case, one an '@', one a digit run, one 5 tokens and one a     *)
(* lowercase first letter; a sixth line would qualify; no name was set.   *)
C22_Witness ==
  \E c \in Callers :
    LET L == stripped_lines(call[c].text)
    IN  /\ HasRun(c, "extract_contact_info")
        /\ Len(L) > 5
        /\ NameCandidates(call[c].text) = {}
        /\ NameQualifies(L[6])
        /\ \E i \in 1..5 : Contains(lower(L[i]), "objective") /\ ~Contains(L[i], "objective")
        /\ \E i \in 1..5 : Contains(L[i], "@")
        /\ \E i \in 1..5 : HasThreeDigits(L[i])
        /\ \E i \in 1..5 : TokenCount(L[i]) = 5
        /\ \E i \in 1..5 : Char(L[i], 1) \in LowerSet
        /\ "name" \notin DOMAIN local[c].contact_info

(* The word w stands in s between whitespace or the ends of s. *)
DelimitedByWhitespace(s, w) ==
  \E i \in 1..(Len(s) - Len(w) + 1) :
    /\ LiteralAt(s, i, w)
    /\ i = 1 \/ IsSpace(Char(s, i - 1))
    /\ i + Len(w) - 1 = Len(s) \/ IsSpace(Char(s, i + Len(w)))

(* The word w stands in s with no letter, digit or underscore next to it. *)
NotInsideWord(s, w) ==
  \E i \in 1..(Len(s) - Len(w) + 1) :
    /\ LiteralAt(s, i, w)
    /\ ~WordAt(s, i - 1)
    /\ ~WordAt(s, i + Len(w))

(* C23: for every canonical skill, those ending in a non-alphanumeric     *)
(* character included (C++, C#, F#), extract_skills reports the skill     *)
(* whenever the text holds its name, in any letter case, as a whole word  *)
(* delimited by whitespace or the ends of the text, and reports no skill  *)
(* whose name occurs only as part of a longer word.                       *)
C23_WholeWordSkills ==
  \A c \in Callers : JustRan(c, "extract_skills") =>
    \A k \in 1..Len(AllSkills) :
      LET skill == AllSkills[k]
          reported == skill \in Range(local[c].skills)
      IN  /\ DelimitedByWhitespace(lower(call[c].text), lower(skill)) => reported
          /\ reported => NotInsideWord(lower(call[c].text), lower(skill))

----------------------------------------------------------------------------
(* Properties of the keywords handed from extract_keywords to             *)
(* get_job_recommendations, checked under Spec.                            *)

(* w is a role keyword or the lowercase form of a skill name. *)
InVocabulary(w) == IsIn(w, JobKeywords) \/ w \in SkillWords

Alphabetic(w) == w # "" /\ \A i \in 1..Len(w) : IsLetter(Char(w, i))

(* A field keyword that extract_keywords cannot produce. *)
Unreachable(keyword) ==
  Contains(keyword, " ") \/ Contains(keyword, "-") \/ ~InVocabulary(lower(keyword))

(* For each field, in taxonomy order, the lowercase forms of its          *)
(* keywords that extract_keywords cannot produce.                         *)
UnreachableKeywords ==
  [ j \in 1..Len(JobFields) |->
      { lower(JobFields[j].keywords[k]) :
          k \in { k \in 1..Len(JobFields[j].keywords) : Unreachable(JobFields[j].keywords[k]) } } ]

(* C24: every word produced by extract_keywords is a single alphabetic    *)
(* token that is a role keyword or a one-word skill name; so when         *)
(* get_job_recommendations is fed these keywords a field keyword with a   *)
(* space or a hyphen, or in neither vocabulary, is never matched, and     *)
(* since every field has such a keyword no field reaches a pre-bonus      *)
(* score of 100.                                                           *)
C24_KeywordsAreVocabularyTokens ==
  \A c \in Callers :
    /\ JustRan(c, "extract_keywords") =>
         \A k \in 1..Len(local[c].keywords) :
           LET w == local[c].keywords[k].word
           IN  Alphabetic(w) /\ InVocabulary(lower(w))
    /\ RecommendReturned(c) =>
         \A j \in 1..Len(job_fields) :
           /\ UnreachableKeywords[j] \cap Range(LowerAll(KeywordWords(call[c].keywords))) = {}
           /\ UnreachableKeywords[j] # {}
           /\ local[c].match_scores[j] < 100

(* C24 witness: the document holds "full-stack", "machine learning",      *)
(* "big data" and a field keyword of neither vocabulary, and a keyword it *)
(* produced is matched by a field; the recommendations were returned.     *)
C24_Witness ==
  \E c \in Callers :
    LET text_lower == lower(local[c].text)
        words == LowerAll(KeywordWords(call[c].keywords))
    IN  /\ RecommendReturned(c)
        /\ Contains(text_lower, "full-stack")
        /\ Contains(text_lower, "machine learning")
        /\ Contains(text_lower, "big data")
        /\ IsIn("backend", Tokens(local[c].text)) /\ Unreachable("backend")
        /\ \E j \in 1..Len(job_fields) :
             /\ IsIn("backend", job_fields[j].keywords)
             /\ \E k \in 1..Len(job_fields[j].keywords) : IsIn(job_fields[j].keywords[k], words)
             /\ local[c].match_scores[j] > 0

----------------------------------------------------------------------------
(* Further properties of extract_experience and extract_education,        *)
(* checked under Spec.                                                      *)

(* The non-blank lines of text without the header lines that follow the   *)
(* first header line.                                                      *)
WithoutLaterHeaders(text) ==
  LET L == stripped_lines(text)
      H == ExperienceHeaderLines(L)
      kept == { i \in 1..Len(L) : i \notin H \/ i = SetMin(H) }
  IN  [ k \in 1..Cardinality(kept) |-> L[Nth(kept, k)] ]

(* C25: every line matching the header pattern is discarded, not only the *)
(* first: a header line inside the section is neither appended to an      *)
(* entry nor starts one, and a line matching both the header and the stop *)
(* pattern does not end the scan; the result is that of the document      *)
(* with the later header lines taken out.                                  *)
C25_EveryHeaderLineDiscarded ==
  \A c \in Callers : JustRan(c, "extract_experience") =>
    local[c].experience = extract_experience(join_lines(WithoutLaterHeaders(call[c].text)))

(* C25 witness: after the first header a line matches both the header and *)
(* the stop pattern, an entry follows it, and a header line stands        *)
(* between the two lines of that entry.                                    *)
C25_Witness ==
  \E c \in Callers :
    LET L == stripped_lines(call[c].text)
        H == ExperienceHeaderLines(L)
    IN  /\ HasRun(c, "extract_experience")
        /\ \E h \in H :
             /\ h > SetMin(H)
             /\ SearchAnyWord(L[h], ExperienceStops)
             /\ \E g \in H :
                  /\ g > h + 1 /\ g < Len(L)
                  /\ IsEntryBoundary(L[g - 1])
                  /\ IsIn(join_space(<< L[g - 1], L[g + 1] >>), local[c].experience)

(* The string entry begins with the whole line. *)
BeginsWithLine(entry, line) ==
  /\ Len(entry) >= Len(line)
  /\ SubSeq(entry, 1, Len(line)) = line
  /\ Len(entry) = Len(line) \/ Char(entry, Len(line) + 1) = " "

(* C26: every entry returned by extract_experience begins with a boundary *)
(* line of the section; the non-boundary lines between the header and     *)
(* the first boundary line are dropped (the first entry begins with the   *)
(* first boundary line), and a section with no boundary line yields the   *)
(* empty list.                                                             *)
C26_EntriesBeginAtBoundary ==
  \A c \in Callers : JustRan(c, "extract_experience") =>
    LET S == ExperienceSection(call[c].text)
        B == { i \in 1..Len(S) : IsEntryBoundary(S[i]) }
        experience == local[c].experience
    IN  /\ \A k \in 1..Len(experience) : \E i \in B : BeginsWithLine(experience[k], S[i])
        /\ B = {} <=> experience = << >>
        /\ B # {} => BeginsWithLine(experience[1], S[SetMin(B)])

(* C26 witness: the section begins with a line that is no boundary line,  *)
(* boundary lines follow, and the first entry returned begins with the    *)
(* first of them.                                                           *)
C26_Witness ==
  \E c \in Callers :
    LET S == ExperienceSection(call[c].text)
        B == { i \in 1..Len(S) : IsEntryBoundary(S[i]) }
    IN  /\ HasRun(c, "extract_experience")
        /\ Len(S) > 1
        /\ ~IsEntryBoundary(S[1])
        /\ B # {}
        /\ local[c].experience # << >>
        /\ BeginsWithLine(local[c].experience[1], S[SetMin(B)])
        /\ ~Contains(local[c].experience[1], S[1])

(* C27: in extract_education every line holding the word "education" is   *)
(* a section header: it is never returned as an entry, even when it       *)
(* matches a degree pattern and holds an institution keyword, and it      *)
(* turns the flag on (the institution line after the first such line is   *)
(* returned without a degree, and only lines after a header are returned  *)
(* without a degree).                                                       *)
C27_EducationLineIsHeader ==
  \A c \in Callers : JustRan(c, "extract_education") =>
    LET L == stripped_lines(call[c].text)
        H == EducationHeaderLines(L)
        education == local[c].education
    IN  /\ \A h \in H : ~IsIn(L[h], education)
        /\ \A k \in 1..Len(education) :
             ~MatchesDegree(education[k]) =>
               \E i \in 1..Len(L) : L[i] = education[k] /\ \E h \in H : h < i
        /\ \A h \in H :
             ( /\ h = SetMin(H) /\ h < Len(L)
               /\ h + 1 \notin H
               /\ ~SearchAnyWord(L[h + 1], EducationStops)
               /\ HasEduKeyword(L[h + 1])
               /\ Cardinality({ i \in 1..(h - 1) : MatchesDegree(L[i]) }) < 3 )
             => IsIn(L[h + 1], education)

(* C27 witness: the first line holding "education" matches a degree       *)
(* pattern and holds an institution keyword; it was not returned, and the *)
(* institution line after it, which has no degree, was.                    *)
C27_Witness ==
  \E c \in Callers :
    LET L == stripped_lines(call[c].text)
        H == EducationHeaderLines(L)
    IN  /\ HasRun(c, "extract_education")
        /\ H # {}
        /\ MatchesDegree(L[SetMin(H)]) /\ HasEduKeyword(L[SetMin(H)])
        /\ ~IsIn(L[SetMin(H)], local[c].education)
        /\ SetMin(H) < Len(L)
        /\ ~MatchesDegree(L[SetMin(H) + 1])
        /\ IsIn(L[SetMin(H) + 1], local[c].education)

----------------------------------------------------------------------------
(* Properties of upload_resume, checked under SpecUpload.                  *)

(* upload_resume has returned to caller c after saving its file. *)
UploadReturned(c) ==
  /\ request[c].op = "upload_resume"
  /\ request[c].stage = "done"
  /\ request[c].status # 400

(* The files of the upload folder that caller c saved. *)
FilesOf(c) == { p \in DOMAIN upload_folder : upload_folder[p].by = c }

(* C28: once upload_resume has saved the uploaded file it removes it      *)
(* before it returns, on every path (after parse and commit, after a      *)
(* parsing error, after a database error): a handler that has returned    *)
(* has left no file of its own, and with no handler running the folder is *)
(* empty; and a row is committed only when parsing succeeded (its         *)
(* raw_text is the text of a readable document and its request holds the  *)
(* parsed record).                                                          *)
C28_UploadedFileRemoved ==
  /\ \A c \in Callers : ~Serving(c) => FilesOf(c) = {}
  /\ (\A c \in Callers : ~Serving(c)) => upload_folder = << >>
  /\ \A row \in resumes :
       \E i \in 1..Len(UploadTexts) :
         strip(UploadTexts[i]) # "" /\ row.raw_text = Take(UploadTexts[i], MaxRawText)
  /\ \A c \in Callers :
       request[c].op = "upload_resume" /\ request[c].resume_id # 0
         => request[c].parsed_data # << >>

(* C28 witness: one upload has returned 200 with its row committed,       *)
(* another has returned 500 after its parse succeeded and the commit      *)
(* raised, and the folder is empty.                                        *)
C28_Witness ==
  \E c, d \in Callers :
    /\ UploadReturned(c) /\ request[c].status = 200
    /\ \E row \in resumes : row.id = request[c].resume_id
    /\ UploadReturned(d) /\ request[d].status = 500
    /\ request[d].parsed_data # << >> /\ request[d].resume_id = 0
    /\ upload_folder = << >>

(* upload_resume of caller c is between the making of its path and its    *)
(* return.                                                                  *)
Uploading(c) == request[c].op = "upload_resume" /\ Serving(c)

(* C29: two upload_resume requests in flight at the same time never use   *)
(* the same saved file path, so the save or the clean-up of one never     *)
(* overwrites or deletes the file the other is still parsing.              *)
C29_DistinctFilePaths ==
  /\ [](\A c, d \in Callers :
          c # d /\ Uploading(c) /\ Uploading(d) => request[c].file_path # request[d].file_path)
  /\ [][\A c \in Callers :
          ( /\ request[c].stage = "parse"
            /\ request[c].file_path \in FilesOf(c)
            /\ request'[c] = request[c] )
          => request[c].file_path \in FilesOf(c)']_vars

----------------------------------------------------------------------------
(* Properties of get_resumes and delete_resume, checked under SpecResumes. *)

(* The handler op has just answered caller c. *)
Answered(c, op) ==
  /\ request'[c] # request[c]
  /\ request'[c].op = op
  /\ request'[c].stage = "done"

(* C30: after any sequence of uploads, listings and deletions by any      *)
(* users, GET /api/resumes returns only (and all) the resumes whose       *)
(* user_id is the authenticated caller's id and changes nothing; DELETE   *)
(* /api/resumes/<id> removes the resume of that id when its user_id is    *)
(* the caller's id and nothing else, and otherwise answers 404 and leaves *)
(* the stored resumes unchanged; a resume uploaded without a login is     *)
(* never listed nor deleted through these routes.                          *)
C30_OwnResumesOnly ==
  [][\A c \in Callers :
       /\ Answered(c, "get_resumes") =>
            /\ resumes' = resumes
            /\ \A row \in request'[c].body :
                 row \in resumes /\ row.user_id = request'[c].user /\ row.user_id # Anonymous
            /\ request'[c].user # Anonymous =>
                 request'[c].body = { row \in resumes : row.user_id = request'[c].user }
       /\ Answered(c, "delete_resume") =>
            LET own == { row \in resumes : /\ row.id = request'[c].resume_id
                                           /\ row.user_id = request'[c].user
                                           /\ row.user_id # Anonymous }
            IN  /\ resumes' = resumes \ own
                /\ own # {} => request'[c].status = 200
                /\ own = {} /\ request'[c].user # Anonymous => request'[c].status = 404
                /\ \A row \in resumes : row.user_id = Anonymous => row \in resumes'
    ]_vars

(* C30 witness: a resume of one user and a resume uploaded without a      *)
(* login are stored; another user listed none of them, and that user's    *)
(* DELETE of the first user's resume was answered 404.                     *)
C30_Witness ==
  \E c \in Callers :
    /\ request[c].op = "delete_resume" /\ request[c].stage = "done"
    /\ request[c].status = 404
    /\ \E row \in resumes :
         /\ row.id = request[c].resume_id
         /\ row.user_id \notin { Anonymous, request[c].user }
    /\ \E row \in resumes : row.user_id = Anonymous

============================================================================
